---- MODULE Spec2Model ----
(***************************************************************************)
(* A model of rsure: the weave storage engine (weave/src), the hash        *)
(* combiner and the two-pass hash updater (src/node/hashes.rs), the        *)
(* filesystem scanner (src/node/fs.rs) and the tree comparator             *)
(* (src/node/compare.rs).                                                  *)
(*                                                                         *)
(* Text is modelled as sequences of characters.  A character of a weave    *)
(* line is a one-character string; the byte 0x01 is written "^A".  A name  *)
(* of a node stream is a sequence of byte values, so that names can be     *)
(* ordered the way Rust orders strings and byte slices.                    *)
(***************************************************************************)
EXTENDS Integers, Sequences, FiniteSets, TLC

VARIABLES
    \* ---- the weave directory on disk and the writer working on it ----
    mainf,      \* the file under the main name: [exists, data]
    bakf,       \* the file under the backup name: [exists, data]
    temps,      \* the temp files <base>.<i>: i -> [exists, data]
    wr,         \* the NewWeave / DeltaWriter in progress (or idle)
    faults,     \* I/O faults the environment may still inject
    hist,       \* the contents committed so far, in order (observer)
    pre,        \* the main file when the current operation began (observer)
    hc,         \* the HashCombiner, its two input streams and its output
    hu,         \* the HashUpdater and HashMerger, their source and the files
    sc,         \* the ScanIterator and the file system it walks
    cmp,        \* compare_trees and the two streams it compares
    tagged,     \* the `name` tags of the deltas committed to the weave, in order
    es,         \* a byte string, its escaped text and what unescape gives
    sf,         \* a surefile: the stream saved, its bytes and what load_from reads
    store,      \* the WeaveStore: its weave file, what was written and what load_iter gives
    tf,         \* the temp names of a directory and the callers of temp_file racing on them
    ps,         \* the push parser at work on one weave file (parse.rs)
    tk,         \* into_tracker at work on one stream: its path buffer and the pairs it gave
    rd,         \* a ReadIterator, the lines it reads and what each call of next gave
    nc          \* a Naming with its next_temp cursor, the temp names of its directory and what temp_file returned

wvars == <<mainf, bakf, temps, wr, faults, hist, pre, tagged>>

cvars == <<hc>>

uvars == <<hu>>

svars == <<sc>>

pvars == <<cmp>>

evars == <<es>>

fvars == <<sf>>

tvars == <<store>>

nvars == <<tf>>

rvars == <<ps>>

kvars == <<tk>>

ivars == <<rd>>

gvars == <<nc>>

vars == <<wvars, cvars, uvars, svars, pvars, evars, fvars, tvars, nvars, rvars, kvars, ivars, gvars>>

\* What the actions on the weave files leave alone
notWeave == <<cvars, uvars, svars, pvars, evars, fvars, tvars, nvars, rvars, kvars, ivars, gvars>>

\* What the actions of the hash combiner leave alone
notCombine == <<wvars, uvars, svars, pvars, evars, fvars, tvars, nvars, rvars, kvars, ivars, gvars>>

\* What the actions of the hash updater leave alone
notHash == <<wvars, cvars, svars, pvars, evars, fvars, tvars, nvars, rvars, kvars, ivars, gvars>>

\* What the actions of the scanner leave alone
notScan == <<wvars, cvars, uvars, pvars, evars, fvars, tvars, nvars, rvars, kvars, ivars, gvars>>

\* What the actions of the comparator leave alone
notCompare == <<wvars, cvars, uvars, svars, evars, fvars, tvars, nvars, rvars, kvars, ivars, gvars>>

\* What the actions of the escape codec leave alone
notEscape == <<wvars, cvars, uvars, svars, pvars, fvars, tvars, nvars, rvars, kvars, ivars, gvars>>

\* What the actions of the surefile codec leave alone
notSure == <<wvars, cvars, uvars, svars, pvars, evars, tvars, nvars, rvars, kvars, ivars, gvars>>

\* What the actions of the WeaveStore leave alone
notStore == <<wvars, cvars, uvars, svars, pvars, evars, fvars, nvars, rvars, kvars, ivars, gvars>>

\* What the actions of temp_file leave alone
notNaming == <<wvars, cvars, uvars, svars, pvars, evars, fvars, tvars, rvars, kvars, ivars, gvars>>

\* What the actions of the parser leave alone
notParse == <<wvars, cvars, uvars, svars, pvars, evars, fvars, tvars, nvars, kvars, ivars, gvars>>

\* What the actions of the path tracker leave alone
notTrack == <<wvars, cvars, uvars, svars, pvars, evars, fvars, tvars, nvars, rvars, ivars, gvars>>

\* What the actions of the ReadIterator leave alone
notRead == <<wvars, cvars, uvars, svars, pvars, evars, fvars, tvars, nvars, rvars, kvars, gvars>>

\* What the actions of the Naming with a cursor leave alone
notCursor == <<wvars, cvars, uvars, svars, pvars, evars, fvars, tvars, nvars, rvars, kvars, ivars>>

(***************************************************************************)
(* Bounds of the model.                                                    *)
(***************************************************************************)
MaxLines == 2       \* lines in one content
MaxWrites == 3      \* write operations started against one weave
MaxFaults == 1      \* I/O faults injected in one behaviour
NumTemps == 4       \* temp names <base>.0 .. <base>.(NumTemps-1)
BufCap == 2         \* lines a BufWriter holds before it flushes
MaxNodes == 2       \* files and directories below the root of one tree
MaxHashNodes == 3   \* files and directories below the root of a tree to hash
MaxCompareNodes == 2 \* named nodes below the root of a stream that is compared
MaxScanNodes == 3   \* files and directories below the root that is scanned
MaxEscapeLen == 3    \* bytes of a string that is escaped, characters of one unescaped
MaxSureNodes == 2    \* named nodes below the root of a stream that is saved
MaxStoreWrites == 2  \* calls of write_new on a store
MaxStoreLines == 2   \* lines of a content after the two fixed lines
NumCallers == 2     \* threads or processes that call temp_file on one directory
NumNames == 3       \* temp names <base>.0 .. that the model follows
MaxParseLen == 4    \* lines in the body of a weave file given to the parser
MaxTarget == 1      \* the line numbers asked of parse_to (0: to the end)
MaxLiveFiles == 4   \* nodes of the one directory hashed under early stops
MaxAttNodes == 1    \* nodes below the root of the streams compared by attributes
MaxTrackNodes == 3  \* nodes below the root of a tracked stream
MaxReadLines == 3   \* body lines of a surefile that is read
UsizeBits == 16     \* bits of the depth counter as modelled
NumCursorNames == 4 \* temp names of the directory of a Naming
NumCpu == 2         \* num_cpus::get(): the workers, and the room of a channel

(***************************************************************************)
(* Generic helpers.                                                        *)
(***************************************************************************)
SeqsUpTo(S, n) == UNION {[1..k -> S] : k \in 0..n}

Prefixes(s) == {SubSeq(s, 1, k) : k \in 0..Len(s)}

StrictPrefixes(s) == {SubSeq(s, 1, k) : k \in 0..(Len(s) - 1)}

Digits == <<"0", "1", "2", "3", "4", "5", "6", "7", "8", "9">>

IsDigit(c) == \E d \in 1..10 : Digits[d] = c

DigitVal(c) == (CHOOSE d \in 1..10 : Digits[d] = c) - 1

\* format!("{}", n) for a usize
RECURSIVE FmtNum(_)
FmtNum(n) == IF n < 10 THEN <<Digits[n + 1]>>
             ELSE FmtNum(n \div 10) \o <<Digits[(n % 10) + 1]>>

\* str::parse::<usize>: Ok for a non-empty run of digits (a leading '+' is
\* not produced by any writer of the model and is not in the alphabet)
ParsesAsNum(s) == Len(s) > 0 /\ \A i \in 1..Len(s) : IsDigit(s[i])

RECURSIVE NumVal(_)
NumVal(s) == IF Len(s) = 0 THEN 0
             ELSE 10 * NumVal(SubSeq(s, 1, Len(s) - 1)) + DigitVal(s[Len(s)])

(***************************************************************************)
(* weave/src/header.rs: the header line.                                   *)
(* The JSON object is modelled by a bracketed list of (number,name)        *)
(* groups; tags and time stamps carry no behaviour and are left out.       *)
(***************************************************************************)
SOH == "^A"

DefaultHeader == [version |-> 1, deltas |-> <<>>]

\* serde_json::to_writer of the header
RECURSIVE JsonDeltas(_)
JsonDeltas(ds) ==
    IF Len(ds) = 0 THEN <<>>
    ELSE <<"(">> \o FmtNum(Head(ds).number) \o <<",">> \o Head(ds).name
         \o <<")">> \o JsonDeltas(Tail(ds))

JsonEncode(h) == <<"{">> \o JsonDeltas(h.deltas) \o <<"}">>

FirstIdx(s, c) == IF \E i \in 1..Len(s) : s[i] = c
                  THEN CHOOSE i \in 1..Len(s) : s[i] = c /\ \A j \in 1..(i - 1) : s[j] # c
                  ELSE 0

\* serde_json::from_str of the header: the groups of the text, or an error
RECURSIVE JsonGroups(_)
JsonGroups(s) ==
    IF Len(s) = 0 THEN [ok |-> TRUE, deltas |-> <<>>]
    ELSE LET close == FirstIdx(s, ")")
             comma == FirstIdx(s, ",")
         IN IF s[1] # "(" \/ close = 0 \/ comma = 0 \/ comma > close
               \/ ~ParsesAsNum(SubSeq(s, 2, comma - 1))
            THEN [ok |-> FALSE, deltas |-> <<>>]
            ELSE LET rest == JsonGroups(SubSeq(s, close + 1, Len(s)))
                     d == [name |-> SubSeq(s, comma + 1, close - 1),
                           number |-> NumVal(SubSeq(s, 2, comma - 1))]
                 IN [ok |-> rest.ok, deltas |-> <<d>> \o rest.deltas]

JsonDecode(s) ==
    IF Len(s) < 2 \/ s[1] # "{" \/ s[Len(s)] # "}"
    THEN [ok |-> FALSE, deltas |-> <<>>]
    ELSE JsonGroups(SubSeq(s, 2, Len(s) - 1))

\* Header::decode
HeaderDecode(line) ==
    IF Len(line) >= 2 /\ line[1] = SOH /\ line[2] = "t"
    THEN LET j == JsonDecode(SubSeq(line, 3, Len(line)))
         IN [ok |-> j.ok, version |-> 1, deltas |-> j.deltas]
    ELSE [ok |-> TRUE, version |-> 0, deltas |-> <<>>]

MaxNumber(ds) == IF Len(ds) = 0 THEN 0
                 ELSE CHOOSE m \in {ds[i].number : i \in 1..Len(ds)} :
                          \A i \in 1..Len(ds) : ds[i].number <= m

\* Header::add: the header with the new delta, and the number it got
HeaderAdd(h, name) ==
    LET next_delta == MaxNumber(h.deltas) + 1
    IN [header |-> [h EXCEPT !.deltas = Append(@, [name |-> name, number |-> next_delta])],
        delta |-> next_delta]

\* Header::write
HeaderLine(h) == <<SOH, "t">> \o JsonEncode(h)

(***************************************************************************)
(* weave/src/parse.rs: the push parser.                                    *)
(* A parser state: src (the lines not yet read), delta, stack (the         *)
(* delta_state, newest first), pending, keeping, lineno, out (what the     *)
(* sink has received so far), ret (the value of the last parse_to) and     *)
(* status: "ok", "err" (parse_to returned Err) or "panic".                 *)
(***************************************************************************)
CtlLine(c, n) == <<SOH, c, " ">> \o FmtNum(n)

\* Sink::plain of the three sinks: WeaveWriter writes every line, RevWriter
\* and the collecting sink of the tests only the kept ones
SinkPlain(out, sink, text, keep) ==
    IF sink = "weave" \/ keep THEN Append(out, text) ELSE out

\* Sink::insert / delete / end: only WeaveWriter overrides the defaults
SinkCtl(out, sink, c, n) ==
    IF sink = "weave" THEN Append(out, CtlLine(c, n)) ELSE out

\* Parser::new_raw
NewRaw(lines, delta) ==
    LET base == [src |-> <<>>, delta |-> delta, stack |-> <<>>, pending |-> <<>>,
                 keeping |-> FALSE, lineno |-> 0, out |-> <<>>, ret |-> 0,
                 status |-> "err"]
    IN IF Len(lines) = 0 THEN base
       ELSE IF ~HeaderDecode(Head(lines)).ok THEN base
       ELSE [base EXCEPT !.src = Tail(lines), !.status = "ok"]

HasDelta(stack, n) == \E i \in 1..Len(stack) : stack[i].delta = n

\* A push that puts the new delta first, whatever its number
PushFront(stack, n, mode) == <<[delta |-> n, mode |-> mode]>> \o stack

\* Parser::push, for a delta that is not on the stack
Push(stack, n, mode) ==
    LET pos == Cardinality({i \in 1..Len(stack) : stack[i].delta > n})
    IN SubSeq(stack, 1, pos) \o <<[delta |-> n, mode |-> mode]>>
       \o SubSeq(stack, pos + 1, Len(stack))

\* Parser::pop, for a delta that is on the stack
Pop(stack, n) ==
    LET pos == CHOOSE i \in 1..Len(stack) : stack[i].delta = n
    IN SubSeq(stack, 1, pos - 1) \o SubSeq(stack, pos + 1, Len(stack))

\* An update_keep that lets the oldest delta decide
UpdateKeepOldest(stack) ==
    LET live == {i \in 1..Len(stack) : stack[i].mode # "Next"}
    IN IF live = {} THEN FALSE
       ELSE stack[CHOOSE i \in live : \A j \in live : i >= j].mode = "Keep"

\* Parser::update_keep
UpdateKeep(stack) ==
    LET live == {i \in 1..Len(stack) : stack[i].mode # "Next"}
    IN IF live = {} THEN FALSE
       ELSE stack[CHOOSE i \in live : \A j \in live : i <= j].mode = "Keep"

Textual(line) == Len(line) = 0 \/ line[1] # SOH

\* One control line `^A{I,D,E} n` of parse_to
ParseCtl(q, sink, c, n) ==
    IF c = "E"
    THEN LET o == [q EXCEPT !.out = SinkCtl(@, sink, "E", n)]
         IN IF ~HasDelta(q.stack, n) THEN [o EXCEPT !.status = "panic"]
            ELSE LET st == Pop(q.stack, n)
                 IN [o EXCEPT !.stack = st, !.keeping = UpdateKeep(st)]
    ELSE LET o == [q EXCEPT !.out = SinkCtl(@, sink, c, n)]
             mode == IF c = "I"
                     THEN (IF q.delta >= n THEN "Keep" ELSE "Skip")
                     ELSE (IF q.delta >= n THEN "Skip" ELSE "Next")
         IN IF HasDelta(q.stack, n) THEN [o EXCEPT !.status = "panic"]
            ELSE LET st == Push(q.stack, n, mode)
                 IN [o EXCEPT !.stack = st, !.keeping = UpdateKeep(st)]

\* The loop of Parser::parse_to
RECURSIVE ParseLoop(_, _, _)
ParseLoop(p, sink, target) ==
    IF p.status # "ok" THEN p
    ELSE IF Len(p.src) = 0 THEN [p EXCEPT !.ret = 0]
    ELSE LET line == Head(p.src)
             q == [p EXCEPT !.src = Tail(@)]
         IN IF Textual(line)
            THEN IF p.keeping /\ p.lineno + 1 = target
                 THEN [q EXCEPT !.lineno = @ + 1, !.pending = <<line>>, !.ret = target]
                 ELSE ParseLoop([q EXCEPT !.lineno = IF p.keeping THEN @ + 1 ELSE @,
                                          !.out = SinkPlain(@, sink, line, p.keeping)],
                                sink, target)
            ELSE IF Len(line) < 4 \/ line[2] \notin {"I", "D", "E"}
            THEN ParseLoop(q, sink, target)
            ELSE IF ~ParsesAsNum(SubSeq(line, 4, Len(line)))
            THEN [q EXCEPT !.status = "err"]
            ELSE ParseLoop(ParseCtl(q, sink, line[2], NumVal(SubSeq(line, 4, Len(line)))),
                           sink, target)

\* Parser::parse_to
ParseTo(p, sink, target) ==
    IF p.status # "ok" THEN p
    ELSE IF Len(p.pending) > 0
    THEN ParseLoop([p EXCEPT !.pending = <<>>,
                             !.out = SinkPlain(@, sink, p.pending[1], p.keeping)],
                   sink, target)
    ELSE ParseLoop(p, sink, target)

ParserResult(p) == [status |-> p.status, lines |-> p.out]

BuildOk(r) == r.status = "ok"

\* Extraction of one delta, as the tests and DeltaWriter::new do it:
\* a parser on the file, parse_to(0), the kept lines collected
Extract(lines, delta) == ParserResult(ParseTo(NewRaw(lines, delta), "rev", 0))

(***************************************************************************)
(* The external `diff OLD NEW` that DeltaWriter::close spawns              *)
(* (weave/src/delta.rs:108-112).  Its normal-format output is modelled as  *)
(* any script built on a longest common subsequence of the two files: the  *)
(* model does not fix which of several minimal scripts diff chooses.       *)
(***************************************************************************)
Monotone(M) == \A a, b \in M : a = b \/ (a[1] < b[1] /\ a[2] < b[2])
                                     \/ (b[1] < a[1] /\ b[2] < a[2])

Alignments(old, new) ==
    LET eq == {ij \in (1..Len(old)) \X (1..Len(new)) : old[ij[1]] = new[ij[2]]}
        ok == {M \in SUBSET eq : Monotone(M)}
    IN {M \in ok : \A N \in ok : Cardinality(N) <= Cardinality(M)}

DiffRange(a, b) == IF a = b THEN FmtNum(a) ELSE FmtNum(a) \o <<",">> \o FmtNum(b)

Marked(mark, lines) == [k \in 1..Len(lines) |-> <<mark, " ">> \o lines[k]]

\* The hunk between two matched pairs (i1,j1) and (i2,j2)
Hunk(old, new, i1, j1, i2, j2) ==
    LET dels == SubSeq(old, i1 + 1, i2 - 1)
        adds == SubSeq(new, j1 + 1, j2 - 1)
    IN IF Len(dels) = 0 /\ Len(adds) = 0 THEN <<>>
       ELSE IF Len(dels) = 0
       THEN <<FmtNum(i1) \o <<"a">> \o DiffRange(j1 + 1, j2 - 1)>> \o Marked(">", adds)
       ELSE IF Len(adds) = 0
       THEN <<DiffRange(i1 + 1, i2 - 1) \o <<"d">> \o FmtNum(j1)>> \o Marked("<", dels)
       ELSE <<DiffRange(i1 + 1, i2 - 1) \o <<"c">> \o DiffRange(j1 + 1, j2 - 1)>>
            \o Marked("<", dels) \o <<<<"-", "-", "-">>>> \o Marked(">", adds)

\* The hunks after the matched pair (i1,j1), for the alignment M
RECURSIVE HunksFrom(_, _, _, _, _)
HunksFrom(old, new, M, i1, j1) ==
    LET later == {ij \in M : ij[1] > i1}
    IN IF later = {}
       THEN Hunk(old, new, i1, j1, Len(old) + 1, Len(new) + 1)
       ELSE LET nx == CHOOSE a \in later : \A b \in later : a[1] <= b[1]
            IN Hunk(old, new, i1, j1, nx[1], nx[2])
               \o HunksFrom(old, new, M, nx[1], nx[2])

DiffOutputs(old, new) == {HunksFrom(old, new, M, 0, 0) : M \in Alignments(old, new)}

(***************************************************************************)
(* weave/src/delta.rs: DeltaWriter::close, the loop over the diff output.  *)
(***************************************************************************)
\* The end of the run of digits that starts at position s
RECURSIVE DigitsEnd(_, _)
DigitsEnd(line, s) ==
    IF s <= Len(line) /\ IsDigit(line[s]) THEN DigitsEnd(line, s + 1) ELSE s

\* diff_re = (\d+)(,(\d+))?([acd]).*$ tried at position s: the captures,
\* or no match.  The regex is searched for, not anchored at the start.
ReAt(line, s) ==
    LET e == DigitsEnd(line, s)
        e2 == IF e < Len(line) /\ line[e] = "," THEN DigitsEnd(line, e + 1) ELSE e
        none == [matched |-> FALSE, left |-> 0, right |-> 0, cmd |-> "a"]
    IN IF e = s THEN none
       ELSE IF e2 > e + 1 /\ e2 <= Len(line) /\ line[e2] \in {"a", "c", "d"}
       THEN [matched |-> TRUE, left |-> NumVal(SubSeq(line, s, e - 1)),
             right |-> NumVal(SubSeq(line, e + 1, e2 - 1)), cmd |-> line[e2]]
       ELSE IF e <= Len(line) /\ line[e] \in {"a", "c", "d"}
       THEN [matched |-> TRUE, left |-> NumVal(SubSeq(line, s, e - 1)),
             right |-> NumVal(SubSeq(line, s, e - 1)), cmd |-> line[e]]
       ELSE none

\* self.diff_re.captures(&line): the leftmost match
DiffRe(line) ==
    LET hits == {s \in 1..Len(line) : ReAt(line, s).matched}
    IN IF hits = {} THEN ReAt(line, Len(line) + 1)
       ELSE ReAt(line, CHOOSE s \in hits : \A t \in hits : s <= t)

\* The state of the loop: the parser p (its out is the WeaveWriter's file),
\* is_done, is_adding, and status "ok", "err" (close returns Err) or "panic"
WwCtl(st, c, n) == [st EXCEPT !.p.out = Append(@, CtlLine(c, n))]

WithParser(st, q) == [st EXCEPT !.p = q, !.status = q.status]

Parsed(st, target) == WithParser(st, ParseTo(st.p, "weave", target))

\* `if is_adding { weave_write.end(new_delta)?; is_adding = false; }`
EndAdding(st, nd) ==
    IF st.status = "ok" /\ st.is_adding
    THEN [WwCtl(st, "E", nd) EXCEPT !.is_adding = FALSE]
    ELSE st

\* `if parser.parse_to(right + 1)? == 0 { is_done = true; }`
NoteDone(b) ==
    IF b.status # "ok" THEN b ELSE [b EXCEPT !.is_done = @ \/ b.p.ret = 0]

\* After parse_to(right + 1) of a deletion: `weave_write.end(new_delta)?`
DeleteEnd(b, nd) == IF b.status # "ok" THEN b ELSE WwCtl(NoteDone(b), "E", nd)

\* After parse_to(left) of a deletion (delta.rs:142-152)
DeleteFrom(a, cap, nd) ==
    IF a.status # "ok" THEN a
    ELSE IF a.p.ret = 0 THEN [a EXCEPT !.status = "err"]
    ELSE DeleteEnd(Parsed(WwCtl(a, "D", nd), cap.right + 1), nd)

\* `if cmd == 'c' || cmd == 'a' { insert(new_delta)?; is_adding = true; }`
StartInsert(st, cap, nd) ==
    IF st.status # "ok" THEN st
    ELSE IF cap.cmd \in {"c", "a"}
    THEN [WwCtl(st, "I", nd) EXCEPT !.is_adding = TRUE]
    ELSE st

\* A hunk header line (delta.rs:125-169)
DiffCommand(st0, cap, nd) ==
    StartInsert(IF cap.cmd \in {"d", "c"}
                THEN DeleteFrom(Parsed(EndAdding(st0, nd), cap.left), cap, nd)
                ELSE NoteDone(Parsed(EndAdding(st0, nd), cap.right + 1)),
                cap, nd)

\* One line of the diff output (delta.rs:122-183), cap being the captures
\* of diff_re on it
DiffLineCap(st, line, cap, nd) ==
    IF cap.matched THEN DiffCommand(st, cap, nd)
    ELSE IF Len(line) = 0 THEN [st EXCEPT !.status = "panic"]
    ELSE IF line[1] \in {"<", "-"} THEN st
    ELSE IF line[1] = ">"
    THEN IF Len(line) < 2 THEN [st EXCEPT !.status = "panic"]
         ELSE [st EXCEPT !.p.out = Append(@, SubSeq(line, 3, Len(line)))]
    ELSE [st EXCEPT !.status = "panic"]

DiffLine(st, line, nd) == DiffLineCap(st, line, DiffRe(line), nd)

RECURSIVE DiffLoop(_, _, _)
DiffLoop(st, lines, nd) ==
    IF st.status # "ok" \/ Len(lines) = 0 THEN st
    ELSE DiffLoop(DiffLine(st, Head(lines), nd), Tail(lines), nd)

StartState(p0) == [p |-> p0, is_done |-> FALSE, is_adding |-> FALSE, status |-> p0.status]

\* `if !is_done { parser.parse_to(0)?; }` (delta.rs:190-192)
CopyRest(st) == IF st.status = "ok" /\ ~st.is_done THEN Parsed(st, 0) ELSE st

BuildResult(st) == [status |-> st.status, lines |-> st.p.out]

\* delta.rs:104-196: the new weave written to the temp file, from the old
\* main file, the base delta and the output of diff
BuildWeave(main, base, nd, diff) ==
    BuildResult(CopyRest(EndAdding(DiffLoop(StartState(NewRaw(main, base)), diff, nd), nd)))

(***************************************************************************)
(* The weave directory and the two writers.                                *)
(***************************************************************************)
LineSet == {<<"A">>, <<"B">>}

Contents == SeqsUpTo(LineSet, MaxLines)

\* The values of the tag "name" of a write
TagNames == {<<"n">>, <<"m">>}

NoFile == [exists |-> FALSE, data |-> <<>>]

FileOf(lines) == [exists |-> TRUE, data |-> lines]

TempIds == 0..(NumTemps - 1)

IdleWriter == [kind |-> "idle", pc |-> "none", result |-> "none", content |-> <<>>,
               todo |-> <<>>, buf |-> <<>>, intended |-> <<>>, complete |-> FALSE,
               tname |-> 0, bname |-> 0, wname |-> 0, base |-> 0, nd |-> 0,
               nops |-> 0, name |-> <<>>]

\* SimpleNaming::temp_file: the first name <base>.<n>, n = 0, 1, ..., that
\* create_new can create
FreeTemp(ts) == CHOOSE i \in TempIds : ~ts[i].exists /\ \A j \in 0..(i - 1) : ts[j].exists

HasFreeTemp(ts) == \E i \in TempIds : ~ts[i].exists

\* BufWriter::write of one line: a full buffer is flushed to the file first
BufWrite(disk, buf, line) ==
    IF Len(buf) >= BufCap THEN [disk |-> disk \o buf, buf |-> <<line>>]
    ELSE [disk |-> disk, buf |-> Append(buf, line)]

RECURSIVE BufWriteAll(_, _, _)
BufWriteAll(disk, buf, lines) ==
    IF Len(lines) = 0 THEN [disk |-> disk, buf |-> buf]
    ELSE LET w == BufWrite(disk, buf, Head(lines))
         IN BufWriteAll(w.disk, w.buf, Tail(lines))

\* The writer has finished: its result is kept until the next one starts
Finished(w, res) == [w EXCEPT !.kind = "idle", !.pc = "none", !.result = res,
                              !.buf = <<>>, !.todo = <<>>]

CanStart == wr.kind = "idle" /\ wr.nops < MaxWrites /\ HasFreeTemp(temps)

\* NewWeave::new (newweave.rs:20-39) with NamingConvention::new_temp: the
\* temp file is created, the header and `^AI 1` go to the buffered writer
NewWeaveNew(c) ==
    /\ CanStart
    /\ LET t == FreeTemp(temps)
           h == HeaderAdd(DefaultHeader, <<"n">>)
           first == <<HeaderLine(h.header), CtlLine("I", h.delta)>>
           w == BufWriteAll(<<>>, <<>>, first)
       IN /\ temps' = [temps EXCEPT ![t] = FileOf(w.disk)]
          /\ wr' = [IdleWriter EXCEPT !.kind = "new", !.pc = "write", !.content = c,
                                      !.todo = c, !.buf = w.buf, !.intended = first,
                                      !.tname = t, !.nd = h.delta,
                                      !.nops = wr.nops + 1, !.name = <<"n">>]
    /\ pre' = mainf
    /\ UNCHANGED <<mainf, bakf, faults, hist, tagged>>
    /\ UNCHANGED notWeave

\* temp_file fails with an I/O error other than AlreadyExists: new returns Err
NewWeaveNewFails ==
    /\ CanStart /\ faults > 0
    /\ faults' = faults - 1
    /\ wr' = Finished([IdleWriter EXCEPT !.nops = wr.nops + 1], "err")
    /\ pre' = mainf
    /\ UNCHANGED <<mainf, bakf, temps, hist, tagged>>
    /\ UNCHANGED notWeave

\* <NewWeave as Write>::write of the next line of the content
NewWeaveWrite ==
    /\ wr.kind = "new" /\ wr.pc = "write" /\ Len(wr.todo) > 0
    /\ LET w == BufWrite(temps[wr.tname].data, wr.buf, Head(wr.todo))
       IN /\ temps' = [temps EXCEPT ![wr.tname] = FileOf(w.disk)]
          /\ wr' = [wr EXCEPT !.todo = Tail(@), !.buf = w.buf,
                              !.intended = Append(@, Head(wr.todo))]
    /\ UNCHANGED <<mainf, bakf, faults, hist, tagged, pre>>
    /\ UNCHANGED notWeave

\* The flush of a full buffer fails part way: write returns Err and the
\* caller gives the writer up
NewWeaveWriteFails ==
    /\ wr.kind = "new" /\ wr.pc = "write" /\ Len(wr.todo) > 0
    /\ Len(wr.buf) >= BufCap /\ faults > 0
    /\ faults' = faults - 1
    /\ \E part \in StrictPrefixes(wr.buf) :
           temps' = [temps EXCEPT ![wr.tname] = FileOf(@.data \o part)]
    /\ wr' = Finished(wr, "err")
    /\ UNCHANGED <<mainf, bakf, hist, tagged, pre>>
    /\ UNCHANGED notWeave

\* NewWeave::close, newweave.rs:44-50: `^AE 1` is written
NewWeaveCloseEnd ==
    /\ wr.kind = "new" /\ wr.pc = "write" /\ Len(wr.todo) = 0
    /\ LET w == BufWrite(temps[wr.tname].data, wr.buf, CtlLine("E", 1))
       IN /\ temps' = [temps EXCEPT ![wr.tname] = FileOf(w.disk)]
          /\ wr' = [wr EXCEPT !.buf = w.buf, !.pc = "drop", !.complete = TRUE,
                              !.intended = Append(@, CtlLine("E", 1))]
    /\ UNCHANGED <<mainf, bakf, faults, hist, tagged, pre>>
    /\ UNCHANGED notWeave

NewWeaveCloseEndFails ==
    /\ wr.kind = "new" /\ wr.pc = "write" /\ Len(wr.todo) = 0
    /\ Len(wr.buf) >= BufCap /\ faults > 0
    /\ faults' = faults - 1
    /\ \E part \in StrictPrefixes(wr.buf) :
           temps' = [temps EXCEPT ![wr.tname] = FileOf(@.data \o part)]
    /\ wr' = Finished(wr, "err")
    /\ UNCHANGED <<mainf, bakf, hist, tagged, pre>>
    /\ UNCHANGED notWeave

\* newweave.rs:47-50: the WriterInfo goes out of scope with only its name
\* moved out; the BufWriter is dropped, and its drop flushes what is buffered
DropWriter ==
    /\ wr.kind = "new" /\ wr.pc = "drop"
    /\ temps' = [temps EXCEPT ![wr.tname] = FileOf(@.data \o wr.buf)]
    /\ wr' = [wr EXCEPT !.buf = <<>>, !.pc = "ren1"]
    /\ UNCHANGED <<mainf, bakf, faults, hist, tagged, pre>>
    /\ UNCHANGED notWeave

\* BufWriter's drop ignores the error of its flush
DropWriterFails ==
    /\ wr.kind = "new" /\ wr.pc = "drop" /\ Len(wr.buf) > 0 /\ faults > 0
    /\ faults' = faults - 1
    /\ \E part \in StrictPrefixes(wr.buf) :
           temps' = [temps EXCEPT ![wr.tname] = FileOf(@.data \o part)]
    /\ wr' = [wr EXCEPT !.buf = <<>>, !.pc = "ren1"]
    /\ UNCHANGED <<mainf, bakf, hist, tagged, pre>>
    /\ UNCHANGED notWeave

\* `let _ = rename(main, backup)` (newweave.rs:52, delta.rs:206): the result
\* is ignored; the rename fails when there is no main file
RenameBackup ==
    /\ wr.kind \in {"new", "delta"} /\ wr.pc = "ren1"
    /\ IF mainf.exists
       THEN mainf' = NoFile /\ bakf' = mainf
       ELSE UNCHANGED <<mainf, bakf>>
    /\ wr' = [wr EXCEPT !.pc = "ren2"]
    /\ UNCHANGED <<temps, faults, hist, tagged, pre>>
    /\ UNCHANGED notWeave

RenameBackupFails ==
    /\ wr.kind \in {"new", "delta"} /\ wr.pc = "ren1" /\ mainf.exists /\ faults > 0
    /\ faults' = faults - 1
    /\ wr' = [wr EXCEPT !.pc = "ren2"]
    /\ UNCHANGED <<mainf, bakf, temps, hist, tagged, pre>>
    /\ UNCHANGED notWeave

\* The deltas of the weave after the commit of the current writer
Committed == IF wr.kind = "new" THEN <<wr.content>>
             ELSE IF wr.nd = Len(hist) + 1 THEN Append(hist, wr.content)
             ELSE hist

\* `rename(temp, main)?` (newweave.rs:53, delta.rs:207)
RenameMain ==
    /\ wr.kind \in {"new", "delta"} /\ wr.pc = "ren2"
    /\ LET t == IF wr.kind = "new" THEN wr.tname ELSE wr.wname
       IN /\ mainf' = temps[t]
          /\ temps' = [temps EXCEPT ![t] = NoFile]
    /\ hist' = Committed
    /\ tagged' = IF wr.kind = "new" THEN <<wr.name>> ELSE Append(tagged, wr.name)
    /\ wr' = IF wr.kind = "new" THEN Finished(wr, "ok") ELSE [wr EXCEPT !.pc = "rm1"]
    /\ UNCHANGED <<bakf, faults, pre>>
    /\ UNCHANGED notWeave

RenameMainFails ==
    /\ wr.kind \in {"new", "delta"} /\ wr.pc = "ren2" /\ faults > 0
    /\ faults' = faults - 1
    /\ wr' = Finished(wr, "err")
    /\ UNCHANGED <<mainf, bakf, temps, hist, tagged, pre>>
    /\ UNCHANGED notWeave

FreeTemps(ts) == {i \in TempIds : ~ts[i].exists}

\* The DeltaWriter that DeltaWriter::new returns (delta.rs:76-86)
DeltaWriterOf(base, c, name, b, t, nops) ==
    [IdleWriter EXCEPT !.kind = "delta", !.pc = "write", !.content = c, !.todo = c,
                       !.bname = b, !.tname = t, !.base = base,
                       !.nd = base + 1, \* new_delta: base + 1
                       !.nops = nops, !.name = name]

\* DeltaWriter::new after the parser has run: x is the outcome of the
\* extraction of the base delta, b and t the two temp files
DeltaNewWith(w, x) ==
    /\ temps' = IF x.status = "ok"
                THEN [temps EXCEPT ![w.bname] = FileOf(x.lines), ![w.tname] = FileOf(<<>>)]
                ELSE [temps EXCEPT ![w.bname] = FileOf(x.lines)]
    /\ wr' = IF x.status = "ok" THEN w ELSE Finished(w, x.status)

\* DeltaWriter::new (delta.rs:46-87) on a main file that exists: the base
\* delta is extracted to a first temp file, a second one takes the content
DeltaNew(base, c, name) ==
    /\ CanStart /\ Cardinality(FreeTemps(temps)) >= 3
    /\ mainf.exists /\ base \in 1..Len(hist)
    /\ DeltaNewWith(DeltaWriterOf(base, c, name, FreeTemp(temps),
                                  FreeTemp([temps EXCEPT ![FreeTemp(temps)] = FileOf(<<>>)]),
                                  wr.nops + 1),
                    Extract(mainf.data, base))
    /\ pre' = mainf
    /\ UNCHANGED <<mainf, bakf, faults, hist, tagged>>
    /\ UNCHANGED notWeave

\* The RevWriter's BufWriter is dropped with the parser (delta.rs:72); the
\* error of its last flush is ignored and the base file is left short
DeltaNewTruncated(base, c, name) ==
    /\ CanStart /\ Cardinality(FreeTemps(temps)) >= 3 /\ faults > 0
    /\ mainf.exists /\ base \in 1..Len(hist)
    /\ \E x \in {Extract(mainf.data, base)} :
         \E w \in {BufWriteAll(<<>>, <<>>, x.lines)} :
           \E part \in StrictPrefixes(w.buf) :
             /\ BuildOk(x)
             /\ DeltaNewWith(DeltaWriterOf(base, c, name, FreeTemp(temps),
                                 FreeTemp([temps EXCEPT ![FreeTemp(temps)] = FileOf(<<>>)]),
                                 wr.nops + 1),
                             [status |-> "ok", lines |-> w.disk \o part])
    /\ faults' = faults - 1
    /\ pre' = mainf
    /\ UNCHANGED <<mainf, bakf, hist, tagged>>
    /\ UNCHANGED notWeave

\* File::open(main) fails (there is no main file), or temp_file fails
DeltaNewFails ==
    /\ CanStart
    /\ \/ ~mainf.exists /\ UNCHANGED faults
       \/ mainf.exists /\ faults > 0 /\ faults' = faults - 1
    /\ wr' = Finished([IdleWriter EXCEPT !.nops = wr.nops + 1], "err")
    /\ pre' = mainf
    /\ UNCHANGED <<mainf, bakf, temps, hist, tagged>>
    /\ UNCHANGED notWeave

\* <DeltaWriter as Write>::write: the temp file is written unbuffered
DeltaWrite ==
    /\ wr.kind = "delta" /\ wr.pc = "write" /\ Len(wr.todo) > 0
    /\ temps' = [temps EXCEPT ![wr.tname] = FileOf(Append(@.data, Head(wr.todo)))]
    /\ wr' = [wr EXCEPT !.todo = Tail(@)]
    /\ UNCHANGED <<mainf, bakf, faults, hist, tagged, pre>>
    /\ UNCHANGED notWeave

DeltaWriteFails ==
    /\ wr.kind = "delta" /\ wr.pc = "write" /\ Len(wr.todo) > 0 /\ faults > 0
    /\ faults' = faults - 1
    /\ wr' = Finished(wr, "err")
    /\ UNCHANGED <<mainf, bakf, temps, hist, tagged, pre>>
    /\ UNCHANGED notWeave

\* The end of the block that writes the new weave to the temp file t: r is
\* the outcome of the loop, written what reached the file
BuildInto(t, r, written) ==
    /\ temps' = [temps EXCEPT ![t] = FileOf(written)]
    /\ wr' = IF r.status = "ok"
             THEN [wr EXCEPT !.pc = "ren1", !.wname = t, !.complete = TRUE,
                             !.intended = r.lines]
             ELSE Finished([wr EXCEPT !.wname = t], r.status)

\* DeltaWriter::close up to child.wait (delta.rs:89-203): diff runs on the
\* two temp files, and the new weave is written to a third
DeltaCloseBuild ==
    /\ wr.kind = "delta" /\ wr.pc = "write" /\ Len(wr.todo) = 0
    /\ \E diff \in DiffOutputs(temps[wr.bname].data, temps[wr.tname].data) :
         \E r \in {BuildWeave(mainf.data, wr.base, wr.nd, diff)} :
             BuildInto(FreeTemp(temps), r, r.lines)
    /\ UNCHANGED <<mainf, bakf, faults, hist, tagged, pre>>
    /\ UNCHANGED notWeave

\* The WeaveWriter's BufWriter is dropped at the end of the block
\* (delta.rs:196); the error of its last flush is ignored
DeltaCloseBuildTruncated ==
    /\ wr.kind = "delta" /\ wr.pc = "write" /\ Len(wr.todo) = 0 /\ faults > 0
    /\ \E diff \in DiffOutputs(temps[wr.bname].data, temps[wr.tname].data) :
         \E r \in {BuildWeave(mainf.data, wr.base, wr.nd, diff)} :
           \E w \in {BufWriteAll(<<>>, <<>>, r.lines)} :
             /\ BuildOk(r)
             /\ \E part \in StrictPrefixes(w.buf) :
                    BuildInto(FreeTemp(temps), r, w.disk \o part)
    /\ faults' = faults - 1
    /\ UNCHANGED <<mainf, bakf, hist, tagged, pre>>
    /\ UNCHANGED notWeave

\* An I/O error that `?` returns, diff ending with a status other than 0
\* or 1, or diff killed by a signal (delta.rs:198-203)
DeltaCloseBuildFails ==
    /\ wr.kind = "delta" /\ wr.pc = "write" /\ Len(wr.todo) = 0 /\ faults > 0
    /\ faults' = faults - 1
    /\ \E diff \in DiffOutputs(temps[wr.bname].data, temps[wr.tname].data) :
         \E r \in {BuildWeave(mainf.data, wr.base, wr.nd, diff)} :
           \E part \in Prefixes(r.lines) :
             /\ temps' = [temps EXCEPT ![FreeTemp(temps)] = FileOf(part)]
             /\ wr' = Finished([wr EXCEPT !.wname = FreeTemp(temps)], "err")
    /\ UNCHANGED <<mainf, bakf, hist, tagged, pre>>
    /\ UNCHANGED notWeave

\* `remove_file(&self.base_name)?` (delta.rs:208)
RemoveBase ==
    /\ wr.kind = "delta" /\ wr.pc = "rm1"
    /\ temps' = [temps EXCEPT ![wr.bname] = NoFile]
    /\ wr' = [wr EXCEPT !.pc = "rm2"]
    /\ UNCHANGED <<mainf, bakf, faults, hist, tagged, pre>>
    /\ UNCHANGED notWeave

RemoveBaseFails ==
    /\ wr.kind = "delta" /\ wr.pc = "rm1" /\ faults > 0
    /\ faults' = faults - 1
    /\ wr' = Finished(wr, "err")
    /\ UNCHANGED <<mainf, bakf, temps, hist, tagged, pre>>
    /\ UNCHANGED notWeave

\* `remove_file(&temp_name)?` and Ok(()) (delta.rs:209-211)
RemoveNew ==
    /\ wr.kind = "delta" /\ wr.pc = "rm2"
    /\ temps' = [temps EXCEPT ![wr.tname] = NoFile]
    /\ wr' = Finished(wr, "ok")
    /\ UNCHANGED <<mainf, bakf, faults, hist, tagged, pre>>
    /\ UNCHANGED notWeave

RemoveNewFails ==
    /\ wr.kind = "delta" /\ wr.pc = "rm2" /\ faults > 0
    /\ faults' = faults - 1
    /\ wr' = Finished(wr, "err")
    /\ UNCHANGED <<mainf, bakf, temps, hist, tagged, pre>>
    /\ UNCHANGED notWeave

\* The writer goes out of scope without close.  Neither NewWeave nor
\* DeltaWriter has a Drop of its own (newweave.rs:16-19, delta.rs:20-40):
\* the fields are dropped, the BufWriter of a NewWeave flushes what it holds,
\* and no file is removed
DropWithoutClose ==
    /\ wr.kind \in {"new", "delta"} /\ wr.pc = "write"
    /\ temps' = IF wr.kind = "new"
                THEN [temps EXCEPT ![wr.tname] = FileOf(@.data \o wr.buf)]
                ELSE temps
    /\ wr' = Finished(wr, "dropped")
    /\ UNCHANGED <<mainf, bakf, faults, hist, tagged, pre>>
    /\ UNCHANGED notWeave

\* The process stops at any point of a write: the files stay as they are
Crash ==
    /\ wr.kind \in {"new", "delta"}
    /\ wr' = Finished(wr, "crash")
    /\ UNCHANGED <<mainf, bakf, temps, faults, hist, tagged, pre>>
    /\ UNCHANGED notWeave

(***************************************************************************)
(* src/node.rs: SureNode, and the node streams.                            *)
(* A name is the sequence of the bytes of the String (the escaped name);   *)
(* atts is a function from the keys present to their values.               *)
(***************************************************************************)
NoAtts == [k \in {} |-> 0]

Enter(name, atts) == [t |-> "Enter", name |-> name, atts |-> atts]

File(name, atts) == [t |-> "File", name |-> name, atts |-> atts]

Sep == [t |-> "Sep", name |-> <<>>, atts |-> NoAtts]

Leave == [t |-> "Leave", name |-> <<>>, atts |-> NoAtts]

\* "__root__"
RootName == <<95, 95, 114, 111, 111, 116, 95, 95>>

\* SureNode::name panics on Sep and Leave, SureNode::atts gives None
HasName(n) == n.t \in {"Enter", "File"}

\* AttMap::get: an Option, here a sequence of at most one value
Get(atts, k) == IF k \in DOMAIN atts THEN <<atts[k]>> ELSE <<>>

\* AttMap::insert
Insert(atts, k, v) == [x \in DOMAIN atts \cup {k} |-> IF x = k THEN v ELSE atts[x]]

\* `<` of str: the order of the bytes, a strict prefix being less
RECURSIVE StrLess(_, _)
StrLess(a, b) ==
    IF Len(b) = 0 THEN FALSE
    ELSE IF Len(a) = 0 THEN TRUE
    ELSE IF Head(a) # Head(b) THEN Head(a) < Head(b)
    ELSE StrLess(Tail(a), Tail(b))

\* The maps of S, and each of them with key k set to a value of V
WithOptional(S, k, V) == S \cup {Insert(m, k, v) : m \in S, v \in V}

\* The well-formed streams: what follows an Enter up to its Leave, with at
\* most n named nodes, the names of the child directories and of the files
\* each strictly ascending
RECURSIVE DirBodies(_, _, _, _), DirLists(_, _, _, _, _), FileLists(_, _, _, _)
DirBodies(names, dirAtts, fileAtts, n) ==
    UNION {{ds \o <<Sep>> \o fs \o <<Leave>> :
                ds \in DirLists(names, dirAtts, fileAtts, k, <<>>),
                fs \in FileLists(names, fileAtts, n - k, <<>>)} : k \in 0..n}

DirLists(names, dirAtts, fileAtts, n, lo) ==
    {<<>>} \cup
    (IF n = 0 THEN {}
     ELSE UNION {UNION {{<<Enter(m, a)>> \o body \o rest :
                             a \in dirAtts,
                             body \in DirBodies(names, dirAtts, fileAtts, j),
                             rest \in DirLists(names, dirAtts, fileAtts, n - 1 - j, m)} :
                        j \in 0..(n - 1)} :
                 m \in {x \in names : StrLess(lo, x)}})

FileLists(names, fileAtts, n, lo) ==
    {<<>>} \cup
    (IF n = 0 THEN {}
     ELSE UNION {{<<File(m, a)>> \o rest :
                      a \in fileAtts, rest \in FileLists(names, fileAtts, n - 1, m)} :
                 m \in {x \in names : StrLess(lo, x)}})

Streams(names, dirAtts, fileAtts, n) ==
    {<<Enter(RootName, a)>> \o body :
         a \in dirAtts, body \in DirBodies(names, dirAtts, fileAtts, n)}

Front(q) == SubSeq(q, 1, Len(q) - 1)

\* The names of the directories open at node i of a stream, outermost first
RECURSIVE DirAt(_, _)
DirAt(s, i) ==
    IF i <= 1 THEN <<>>
    ELSE IF s[i - 1].t = "Enter" THEN Append(DirAt(s, i - 1), s[i - 1].name)
    ELSE IF s[i - 1].t = "Leave" THEN Front(DirAt(s, i - 1))
    ELSE DirAt(s, i - 1)

(***************************************************************************)
(* src/escape.rs: names as they are written in a stream.                   *)
(* A string and a byte vector are both sequences of byte values.           *)
(***************************************************************************)
\* The digit that {:02x} and HEXLOWER write for a value 0..15
HexDigit(v) == IF v < 10 THEN 48 + v ELSE 87 + v

\* escaped for one byte, `=` passed through
EscapedByteKeepsEquals(ch) ==
    IF 33 <= ch /\ ch <= 126 THEN <<ch>>
    ELSE <<61, HexDigit(ch \div 16), HexDigit(ch % 16)>>

\* <[u8] as Escape>::escaped, for one byte
EscapedByte(ch) ==
    IF 33 <= ch /\ ch <= 126 /\ ch # 61 THEN <<ch>>
    ELSE <<61, HexDigit(ch \div 16), HexDigit(ch % 16)>>

\* <[u8] as Escape>::escaped
RECURSIVE Escaped(_)
Escaped(bytes) ==
    IF Len(bytes) = 0 THEN <<>> ELSE EscapedByte(Head(bytes)) \o Escaped(Tail(bytes))

\* `|` of two u8
RECURSIVE BitOr(_, _)
BitOr(a, b) ==
    IF a = 0 THEN b
    ELSE IF b = 0 THEN a
    ELSE (IF a % 2 = 1 \/ b % 2 = 1 THEN 1 ELSE 0) + 2 * BitOr(a \div 2, b \div 2)

\* The match of unescape on a byte that follows `=`: the value or-ed into
\* tmp, or -1 for InvalidHexCharacter.  The third arm is b'0'...b'f'.
HexValue(byte) ==
    IF 65 <= byte /\ byte <= 70 THEN byte - 55
    ELSE IF 97 <= byte /\ byte <= 102 THEN byte - 87
    ELSE IF 48 <= byte /\ byte <= 102 THEN byte - 48
    ELSE -1

\* The loop of unescape: u is [buf, phase, tmp, ok, err, ch]
UnescapeByte(u, byte) ==
    IF u.phase = 0
    THEN IF byte = 61 THEN [u EXCEPT !.phase = 1] ELSE [u EXCEPT !.buf = Append(@, byte)]
    ELSE IF HexValue(byte) < 0
    THEN [u EXCEPT !.ok = FALSE, !.err = "InvalidHexCharacter", !.ch = byte]
    ELSE IF u.phase = 2
    THEN [u EXCEPT !.buf = Append(@, BitOr((u.tmp * 16) % 256, HexValue(byte))),
                   !.phase = 0, !.tmp = 0]
    ELSE [u EXCEPT !.tmp = BitOr((u.tmp * 16) % 256, HexValue(byte)), !.phase = 2]

RECURSIVE UnescapeLoop(_, _)
UnescapeLoop(u, str) ==
    IF ~u.ok \/ Len(str) = 0 THEN u
    ELSE UnescapeLoop(UnescapeByte(u, Head(str)), Tail(str))

\* After the loop: InvalidHexLength when an escape is not finished
UnescapeEnd(u) ==
    [ok |-> u.ok /\ u.phase = 0, bytes |-> u.buf, ch |-> u.ch,
     err |-> IF ~u.ok THEN u.err ELSE IF u.phase # 0 THEN "InvalidHexLength" ELSE "none"]

\* <str as Unescape>::unescape: Ok(bytes), or an error
Unescape(str) ==
    UnescapeEnd(UnescapeLoop([buf |-> <<>>, phase |-> 0, tmp |-> 0, ok |-> TRUE,
                              err |-> "none", ch |-> 0], str))

\* HEXLOWER.encode
RECURSIVE HexLower(_)
HexLower(bytes) ==
    IF Len(bytes) = 0 THEN <<>>
    ELSE <<HexDigit(Head(bytes) \div 16), HexDigit(Head(bytes) % 16)>> \o HexLower(Tail(bytes))

(***************************************************************************)
(* src/node/hashes.rs: HashCombiner.                                       *)
(* The combiner c: left and right (the heads), li and ri (what the two     *)
(* iterators still hold), state (the Vec<CombineState>, its top last),     *)
(* seen_root, out (the nodes next has returned) and status: "idle",        *)
(* "run", "done" (next returned None), "err" or "panic".                   *)
(***************************************************************************)
IdleCombiner == [L |-> <<>>, R |-> <<>>, left |-> Leave, right |-> Leave,
                 li |-> <<>>, ri |-> <<>>, state |-> <<>>, seen_root |-> FALSE,
                 out |-> <<>>, status |-> "idle"]

\* HashCombiner::new on two streams that are not empty
CombinerOf(L, R) ==
    [IdleCombiner EXCEPT !.L = L, !.R = R, !.left = Head(L), !.right = Head(R),
                         !.li = Tail(L), !.ri = Tail(R), !.status = "run"]

\* next_left: the head is replaced by the next node, or by Leave at the end
NextLeft(c) ==
    IF Len(c.li) = 0 THEN [c EXCEPT !.left = Leave]
    ELSE [c EXCEPT !.left = Head(c.li), !.li = Tail(c.li)]

\* next_right, its old head returned by next
EmitRight(c) ==
    IF Len(c.ri) = 0 THEN [c EXCEPT !.right = Leave, !.out = Append(@, c.right)]
    ELSE [c EXCEPT !.right = Head(c.ri), !.ri = Tail(c.ri), !.out = Append(@, c.right)]

PushState(c, sts) == [c EXCEPT !.state = @ \o sts]

Failed(c, how) == [c EXCEPT !.status = how]

\* The test of maybe_copy_sha: the sha1 of left goes to right
CopiesSha(latts, ratts) ==
    /\ "sha1" \notin DOMAIN ratts
    /\ latts["kind"] = "file" /\ ratts["kind"] = "file"
    /\ Get(latts, "ino") = Get(ratts, "ino")
    /\ Get(latts, "ctime") = Get(ratts, "ctime")
    /\ "sha1" \in DOMAIN latts

\* maybe_copy_sha: the attributes of right after the call
MaybeCopySha(latts, ratts) ==
    IF CopiesSha(latts, ratts) THEN Insert(ratts, "sha1", latts["sha1"]) ELSE ratts

\* visit_root
VisitRoot(c) ==
    IF c.left.t # "Enter" \/ c.right.t # "Enter" THEN Failed(c, "err")
    ELSE IF c.left.name # RootName \/ c.right.name # RootName THEN Failed(c, "err")
    ELSE [PushState(EmitRight(NextLeft(c)), <<"SameDirs">>) EXCEPT !.seen_root = TRUE]

\* visit_samedir, the state popped
VisitSameDir(c) ==
    IF c.left.t = "Sep" /\ c.right.t = "Sep"
    THEN PushState(EmitRight(NextLeft(c)), <<"SameFiles">>)
    ELSE IF c.left.t # "Sep" /\ c.right.t = "Sep"
    THEN PushState(NextLeft(c), <<"SameDirs", "LeftDirs">>)
    ELSE IF c.left.t = "Sep" /\ c.right.t # "Sep"
    THEN PushState(EmitRight(c), <<"SameDirs", "RightDirs">>)
    ELSE IF ~HasName(c.left) \/ ~HasName(c.right) THEN Failed(c, "panic")
    ELSE IF c.left.name = c.right.name
    THEN PushState(EmitRight(NextLeft(c)), <<"SameDirs", "SameDirs">>)
    ELSE IF StrLess(c.left.name, c.right.name)
    THEN PushState(NextLeft(c), <<"SameDirs", "LeftDirs">>)
    ELSE PushState(EmitRight(c), <<"SameDirs", "RightDirs">>)

\* The right head with the sha1 that maybe_copy_sha gives it
WithCopiedSha(c) ==
    [c EXCEPT !.right.atts = MaybeCopySha(c.left.atts, c.right.atts)]

\* visit_samefiles, the state popped
VisitSameFiles(c) ==
    IF c.left.t = "Leave" /\ c.right.t = "Leave" THEN EmitRight(NextLeft(c))
    ELSE IF c.left.t = "Leave" THEN PushState(EmitRight(c), <<"SameFiles">>)
    ELSE IF c.right.t = "Leave" THEN PushState(NextLeft(c), <<"SameFiles">>)
    ELSE IF ~HasName(c.left) \/ ~HasName(c.right) THEN Failed(c, "panic")
    ELSE IF c.left.name = c.right.name
    THEN IF "kind" \notin DOMAIN c.left.atts \/ "kind" \notin DOMAIN c.right.atts
         THEN Failed(c, "panic")
         ELSE PushState(EmitRight(NextLeft(WithCopiedSha(c))), <<"SameFiles">>)
    ELSE IF StrLess(c.left.name, c.right.name)
    THEN PushState(NextLeft(c), <<"SameFiles">>)
    ELSE PushState(EmitRight(c), <<"SameFiles">>)

\* What visit_rightdirs and visit_leftdirs push for the head they look at
SkipPush(node, st) ==
    IF node.t = "Enter" THEN <<st, st>>
    ELSE IF node.t = "Leave" THEN <<>>
    ELSE <<st>>

\* visit_rightdirs, the state popped
VisitRightDirs(c) == EmitRight(PushState(c, SkipPush(c.right, "RightDirs")))

\* visit_leftdirs, were it to return the node of the left stream it passes
VisitLeftDirsReturning(c) ==
    [NextLeft(PushState(c, SkipPush(c.left, "LeftDirs"))) EXCEPT !.out = Append(@, c.left)]

\* visit_leftdirs, the state popped
VisitLeftDirs(c) == NextLeft(PushState(c, SkipPush(c.left, "LeftDirs")))

Popped(c) == [c EXCEPT !.state = SubSeq(@, 1, Len(@) - 1)]

\* HashCombiner::new(left_iter, right_iter)
CombinerNew ==
    /\ hc.status = "idle" /\ Len(hc.L) > 0 /\ Len(hc.R) > 0
    /\ hc' = CombinerOf(hc.L, hc.R)
    /\ UNCHANGED notCombine

\* One turn of the loop of next, by the state it pops
Running(st) ==
    /\ hc.status = "run" /\ ~(hc.seen_root /\ Len(hc.state) = 0)
    /\ IF Len(hc.state) = 0 THEN st = "Root" ELSE hc.state[Len(hc.state)] = st

CombinerVisitRoot ==
    /\ Running("Root")
    /\ hc' = VisitRoot(hc)
    /\ UNCHANGED notCombine

CombinerVisitSameDir ==
    /\ Running("SameDirs")
    /\ hc' = VisitSameDir(Popped(hc))
    /\ UNCHANGED notCombine

CombinerVisitSameFiles ==
    /\ Running("SameFiles")
    /\ hc' = VisitSameFiles(Popped(hc))
    /\ UNCHANGED notCombine

CombinerVisitRightDirs ==
    /\ Running("RightDirs")
    /\ hc' = VisitRightDirs(Popped(hc))
    /\ UNCHANGED notCombine

CombinerVisitLeftDirs ==
    /\ Running("LeftDirs")
    /\ hc' = VisitLeftDirs(Popped(hc))
    /\ UNCHANGED notCombine

\* `if self.seen_root && self.state.is_empty() { return None; }`
CombinerNone ==
    /\ hc.status = "run" /\ hc.seen_root /\ Len(hc.state) = 0
    /\ hc' = [hc EXCEPT !.status = "done"]
    /\ UNCHANGED notCombine

(***************************************************************************)
(* src/node/hashes.rs: HashUpdater::compute_parallel and HashMerger::merge.*)
(* The updater u: src (the stream the Source gives, each time), files      *)
(* (the content at each path, or Unreadable), pass, the producer's pos     *)
(* and count, the work channel and whether it is closed, the workers, the  *)
(* result channel res, the table db, and for merge rows (the rows not yet  *)
(* taken, by id), mpos, mcount and out (the nodes written).  prod is the   *)
(* producer thread ("run", "end" or "panic"), main the closure of the      *)
(* scope ("run", "ret" or "panic"), a worker that panicked is "dead";      *)
(* order are the ids of the rows of db as they were inserted.  pass is     *)
(* "err" when compute_parallel has returned Err and "panic" when it has    *)
(* panicked.                                                               *)
(***************************************************************************)
Unreadable == "unreadable"

\* The digest of a content: two bytes stand for the twenty of SHA-1
Sha1Of(content) == IF content = "x" THEN <<171, 5>> ELSE <<12, 239>>

\* SureNode::needs_hash
NeedsHash(n) == n.t = "File" /\ n.atts["kind"] = "file" /\ "sha1" \notin DOMAIN n.atts

UnescapedAll(names) == [k \in 1..Len(names) |-> Unescape(names[k]).bytes]

\* into_tracker: the path of node i below the root directory
TrackerPath(s, i) ==
    UnescapedAll(Tail(DirAt(s, i)) \o (IF HasName(s[i]) /\ i > 1 THEN <<s[i].name>> ELSE <<>>))

HashPaths(s) == {TrackerPath(s, i) : i \in {k \in 1..Len(s) : NeedsHash(s[k])}}

(***************************************************************************)
(* src/node/fullpath.rs: into_tracker, one call of its closure per node.   *)
(* A PathBuf is whether it starts at "/" and its components; a name of a   *)
(* well-formed stream is one component (it is not empty, ".", ".." and     *)
(* holds no "/").                                                          *)
(***************************************************************************)
\* Option<PathBuf>
NoPath == <<>>

SomePath(path) == <<path>>

\* The buffer of a tracker that was not made
NoBuf == [abs |-> FALSE, comps |-> <<>>]

\* Path::new(root): the roots are ".", "/" and "/d"
PathNew(bytes) ==
    IF bytes[1] = 47
    THEN [abs |-> TRUE, comps |-> IF Len(bytes) = 1 THEN <<>> ELSE <<Tail(bytes)>>]
    ELSE [abs |-> FALSE, comps |-> <<bytes>>]

\* PathBuf::push of a relative name of one component
PathPush(path, name) == [path EXCEPT !.comps = Append(@, name)]

\* PathBuf::pop keeping the buffer as it is
PathPopNothing(path) == path

\* PathBuf::pop: the parent, and no change when there is none ("/" and "")
PathPop(path) == IF path.comps = <<>> THEN path ELSE [path EXCEPT !.comps = Front(@)]

IdleTrack == [src |-> <<>>, root |-> <<>>, pos |-> 1, cur |-> NoBuf, at_root |-> TRUE,
              out |-> <<>>, curs |-> <<>>, panic |-> FALSE]

\* What the closure leaves behind for one node: the pair given and the buffer
Tracked(path, cur) ==
    [tk EXCEPT !.pos = @ + 1, !.out = Append(@, path), !.cur = cur,
               !.curs = Append(@, cur)]

\* SureNode::Enter
TrackEnter ==
    /\ ~tk.panic
    /\ tk.pos <= Len(tk.src)
    /\ tk.src[tk.pos].t = "Enter"
    /\ IF tk.at_root
       THEN IF tk.src[tk.pos].name # RootName
            THEN tk' = [tk EXCEPT !.panic = TRUE]
            ELSE tk' = [Tracked(SomePath(tk.cur), tk.cur) EXCEPT !.at_root = FALSE]
       ELSE \E c \in {PathPush(tk.cur, Unescape(tk.src[tk.pos].name).bytes)} :
                tk' = Tracked(SomePath(c), c)
    /\ UNCHANGED notTrack

\* SureNode::File: push, clone, pop
TrackFile ==
    /\ ~tk.panic
    /\ tk.pos <= Len(tk.src)
    /\ tk.src[tk.pos].t = "File"
    /\ \E c \in {PathPush(tk.cur, Unescape(tk.src[tk.pos].name).bytes)} :
           tk' = Tracked(SomePath(c), PathPop(c))
    /\ UNCHANGED notTrack

\* SureNode::Leave: no path, pop
TrackLeave ==
    /\ ~tk.panic
    /\ tk.pos <= Len(tk.src)
    /\ tk.src[tk.pos].t = "Leave"
    /\ tk' = Tracked(NoPath, PathPop(tk.cur))
    /\ UNCHANGED notTrack

\* SureNode::Sep: no path
TrackSep ==
    /\ ~tk.panic
    /\ tk.pos <= Len(tk.src)
    /\ tk.src[tk.pos].t = "Sep"
    /\ tk' = Tracked(NoPath, tk.cur)
    /\ UNCHANGED notTrack

IdleUpdater == [src |-> <<>>, files |-> <<>>, pass |-> "idle", pos |-> 1, count |-> 0,
                work |-> <<>>, closed |-> FALSE, workers |-> <<>>, res |-> <<>>,
                db |-> {}, rows |-> <<>>, mpos |-> 1, mcount |-> 0, out |-> <<>>,
                prod |-> "run", main |-> "run", order |-> <<>>]

IdleWorker == [st |-> "idle", id |-> 0, path |-> <<>>]

\* hash_one_file, were it to send the hash of the first file under the
\* id of every work
HashOneFileStale(w, files) ==
    [id |-> w.id, hash |-> Sha1Of(files[CHOOSE p \in DOMAIN files : files[p] # Unreadable])]

\* hash_one_file on a file that can be opened and read
HashOneFile(w, files) == [id |-> w.id, hash |-> Sha1Of(files[w.path])]

\* The rows by descending id
RECURSIVE RowsByIdDesc(_)
RowsByIdDesc(db) ==
    IF db = {} THEN <<>>
    ELSE LET r == CHOOSE x \in db : \A y \in db : x.id >= y.id
         IN <<r>> \o RowsByIdDesc(db \ {r})

\* SELECT id, hash FROM hashes ORDER BY id
RECURSIVE RowsById(_)
RowsById(db) ==
    IF db = {} THEN <<>>
    ELSE LET r == CHOOSE x \in db : \A y \in db : x.id <= y.id
         IN <<r>> \o RowsById(db \ {r})

\* A peek that takes the next row whatever its id
PeekRowAny(rows, count) == IF Len(rows) = 0 THEN "none" ELSE "take"

\* The loop on hash_iter.peek() of merge: "take", "none" or "panic"
PeekRow(rows, count) ==
    IF Len(rows) = 0 THEN "none"
    ELSE IF count = Head(rows).id THEN "take"
    ELSE IF count < Head(rows).id THEN "none"
    ELSE "panic"

WithSha1(n, hash) == [n EXCEPT !.atts = Insert(@, "sha1", HexLower(hash))]

\* compute_parallel up to the spawning of the threads
ComputeStart ==
    /\ hu.pass = "idle" /\ Len(hu.src) > 0
    /\ hu' = [hu EXCEPT !.pass = "one", !.workers = [w \in 1..NumCpu |-> IdleWorker]]
    /\ UNCHANGED notHash

\* Every Receiver of the work channel is dropped: the one of the scope's
\* closure and the clone of each worker
ReceiversGone ==
    /\ hu.main # "run"
    /\ \A w \in 1..NumCpu : hu.workers[w].st \in {"exit", "dead"}

\* The producer thread: a node that needs a hash is sent as HashWork
ProducerSend ==
    /\ hu.pass = "one" /\ hu.pos <= Len(hu.src) /\ NeedsHash(hu.src[hu.pos])
    /\ hu.prod = "run"
    /\ ~ReceiversGone
    /\ Len(hu.work) < NumCpu
    /\ hu' = [hu EXCEPT !.work = Append(@, [id |-> hu.count,
                                            path |-> TrackerPath(hu.src, hu.pos)]),
                        !.count = @ + 1, !.pos = @ + 1]
    /\ UNCHANGED notHash

\* A producer that counts every node
ProducerSkipCounting ==
    /\ hu.pass = "one" /\ hu.pos <= Len(hu.src) /\ ~NeedsHash(hu.src[hu.pos])
    /\ hu.prod = "run"
    /\ hu' = [hu EXCEPT !.pos = @ + 1, !.count = @ + 1]
    /\ UNCHANGED notHash

ProducerSkip ==
    /\ hu.pass = "one" /\ hu.pos <= Len(hu.src) /\ ~NeedsHash(hu.src[hu.pos])
    /\ hu.prod = "run"
    /\ hu' = [hu EXCEPT !.pos = @ + 1]
    /\ UNCHANGED notHash

\* A producer whose Sender outlives its closure
ProducerEndKeepsSender ==
    /\ hu.pass = "one" /\ hu.pos > Len(hu.src) /\ hu.prod = "run"
    /\ hu' = [hu EXCEPT !.prod = "end"]
    /\ UNCHANGED notHash

\* The producer's closure ends: work_send is dropped
ProducerEnd ==
    /\ hu.pass = "one" /\ hu.pos > Len(hu.src) /\ hu.prod = "run"
    /\ hu' = [hu EXCEPT !.closed = TRUE, !.prod = "end"]
    /\ UNCHANGED notHash

\* `entry.unwrap()` on an Err of the source's iterator: the producer
\* panics, and the unwinding drops work_send
ProducerStreamError ==
    /\ hu.pass = "one" /\ hu.pos <= Len(hu.src) /\ hu.prod = "run"
    /\ hu' = [hu EXCEPT !.closed = TRUE, !.prod = "panic"]
    /\ UNCHANGED notHash

\* `work_send.send(..).unwrap()` when no Receiver is left: send returns
\* Err, full channel or not, and the producer panics
ProducerSendFails ==
    /\ hu.pass = "one" /\ hu.pos <= Len(hu.src) /\ NeedsHash(hu.src[hu.pos])
    /\ hu.prod = "run"
    /\ ReceiversGone
    /\ hu' = [hu EXCEPT !.closed = TRUE, !.prod = "panic"]
    /\ UNCHANGED notHash

\* A receive that leaves the work in the channel
WorkerRecvPeek(w) ==
    /\ hu.pass = "one" /\ hu.workers[w].st = "idle" /\ Len(hu.work) > 0
    /\ hu' = [hu EXCEPT !.workers[w] = [st |-> "busy", id |-> Head(hu.work).id,
                                        path |-> Head(hu.work).path]]
    /\ UNCHANGED notHash

\* `for work in work_recv`
WorkerRecv(w) ==
    /\ hu.pass = "one" /\ hu.workers[w].st = "idle" /\ Len(hu.work) > 0
    /\ hu' = [hu EXCEPT !.work = Tail(@),
                        !.workers[w] = [st |-> "busy", id |-> Head(hu.work).id,
                                        path |-> Head(hu.work).path]]
    /\ UNCHANGED notHash

\* hash_one_file: the hash is sent on the result channel
WorkerHashed(w) ==
    /\ hu.pass = "one" /\ hu.workers[w].st = "busy"
    /\ hu.files[hu.workers[w].path] # Unreadable
    /\ hu.main = "run"
    /\ Len(hu.res) < NumCpu
    /\ hu' = [hu EXCEPT !.res = Append(@, HashOneFile(hu.workers[w], hu.files)),
                        !.workers[w] = IdleWorker]
    /\ UNCHANGED notHash

\* A worker that sends the hash of no content for a file it cannot read
WorkerFailedSends(w) ==
    /\ hu.pass = "one" /\ hu.workers[w].st = "busy"
    /\ hu.files[hu.workers[w].path] = Unreadable
    /\ Len(hu.res) < NumCpu
    /\ hu' = [hu EXCEPT !.res = Append(@, [id |-> hu.workers[w].id,
                                           hash |-> Sha1Of("")]),
                        !.workers[w] = IdleWorker]
    /\ UNCHANGED notHash

\* hash_one_file: the file cannot be opened or read, the error is logged
WorkerFailed(w) ==
    /\ hu.pass = "one" /\ hu.workers[w].st = "busy"
    /\ hu.files[hu.workers[w].path] = Unreadable
    /\ hu' = [hu EXCEPT !.workers[w] = IdleWorker]
    /\ UNCHANGED notHash

\* hash_one_file: `sender.send(..).unwrap()` when result_recv is dropped:
\* the worker panics
WorkerSendFails(w) ==
    /\ hu.pass = "one" /\ hu.workers[w].st = "busy"
    /\ hu.files[hu.workers[w].path] # Unreadable
    /\ hu.main = "panic"
    /\ hu' = [hu EXCEPT !.workers[w].st = "dead"]
    /\ UNCHANGED notHash

\* The work channel is closed and empty: the worker's loop ends
WorkerExit(w) ==
    /\ hu.pass = "one" /\ hu.workers[w].st = "idle" /\ hu.closed /\ Len(hu.work) = 0
    /\ hu' = [hu EXCEPT !.workers[w].st = "exit"]
    /\ UNCHANGED notHash

\* `for info in result_recv`: INSERT INTO hashes, unwrapped
MainInsert ==
    /\ hu.pass = "one" /\ Len(hu.res) > 0
    /\ hu.main = "run"
    /\ hu' = IF \E r \in hu.db : r.id = Head(hu.res).id
             THEN [hu EXCEPT !.pass = "panic"]
             ELSE [hu EXCEPT !.db = @ \cup {Head(hu.res)}, !.res = Tail(@),
                             !.order = Append(@, Head(hu.res).id)]
    /\ UNCHANGED notHash

\* `trans.execute(..).unwrap()` on an error of the database: the closure
\* of the scope panics, and the unwinding drops result_recv and work_recv
MainInsertFails ==
    /\ hu.pass = "one" /\ Len(hu.res) > 0
    /\ hu.main = "run"
    /\ hu' = [hu EXCEPT !.main = "panic", !.res = <<>>]
    /\ UNCHANGED notHash

\* The scope has joined every thread after a panic of its closure and
\* resumes the unwinding
ScopePanics ==
    /\ hu.pass = "one" /\ hu.main = "panic"
    /\ hu.prod # "run"
    /\ \A w \in 1..NumCpu : hu.workers[w].st \in {"exit", "dead"}
    /\ hu' = [hu EXCEPT !.pass = "panic"]
    /\ UNCHANGED notHash

\* Every sender of the result channel is gone: commit, and merge prepares
\* its query
\* (the scope returns Err when a thread it joined has panicked)
MainCommit ==
    /\ hu.pass = "one" /\ Len(hu.res) = 0
    /\ hu.main = "run"
    /\ \A w \in 1..NumCpu : hu.workers[w].st = "exit"
    /\ hu' = [hu EXCEPT !.pass = IF hu.prod = "panic" THEN "err" ELSE "two",
                        !.main = "ret", !.rows = RowsById(hu.db)]
    /\ UNCHANGED notHash

\* One node of the loop of merge
MergeNode ==
    /\ hu.pass = "two" /\ hu.mpos <= Len(hu.src)
    /\ \E n \in {hu.src[hu.mpos]}, pk \in {PeekRow(hu.rows, hu.mcount)} :
         hu' = IF ~NeedsHash(n)
               THEN [hu EXCEPT !.out = Append(@, n), !.mpos = @ + 1]
               ELSE IF pk = "panic" THEN [hu EXCEPT !.pass = "panic"]
               ELSE IF pk = "take"
               THEN [hu EXCEPT !.out = Append(@, WithSha1(n, Head(hu.rows).hash)),
                               !.rows = Tail(@), !.mcount = @ + 1, !.mpos = @ + 1]
               ELSE [hu EXCEPT !.out = Append(@, n), !.mcount = @ + 1, !.mpos = @ + 1]
    /\ UNCHANGED notHash

MergeEnd ==
    /\ hu.pass = "two" /\ hu.mpos > Len(hu.src)
    /\ hu' = [hu EXCEPT !.pass = "done"]
    /\ UNCHANGED notHash

(***************************************************************************)
(* src/node/fs.rs: scan_fs and ScanIterator.                               *)
(* A directory entry e of the file system: kind is "file", "dir", "nostat" *)
(* (its metadata cannot be read), "noread" (a directory that read_dir      *)
(* fails on) or "mount" (a directory on another device); entries maps the  *)
(* raw names in a "dir" to their entries.  The scanner sc: fs (the entry   *)
(* of the root), todo, out (the nodes returned), errs (the Err items       *)
(* returned) and status.                                                   *)
(***************************************************************************)
Entry(kind, entries) == [kind |-> kind, entries |-> entries]

\* The file systems: the directories over the names of a sequence, with at
\* most n entries below them, and the entries of at most n nodes
RECURSIVE DirContents(_, _, _), Entries(_, _)
DirContents(todo, all, n) ==
    IF Len(todo) = 0 \/ n = 0 THEN {NoAtts}
    ELSE DirContents(Tail(todo), all, n)
         \cup UNION {{Insert(rest, Head(todo), e) :
                          e \in Entries(all, k),
                          rest \in DirContents(Tail(todo), all, n - k)} : k \in 1..n}

Entries(all, n) ==
    {Entry(k, NoAtts) : k \in {"file", "nostat", "noread", "mount"}}
    \cup {Entry("dir", c) : c \in DirContents(all, all, n - 1)}

\* Metadata::is_dir
IsDir(e) == e.kind \in {"dir", "noread", "mount"}

\* encode_atts, as far as the kind
EncodeAtts(e) == [kind |-> IF IsDir(e) THEN "dir" ELSE "file"]

\* `files.sort_by(|a, b| a.path.file_name().cmp(&b.path.file_name()))`
RECURSIVE SortedByFileName(_)
SortedByFileName(S) ==
    IF S = {} THEN <<>>
    ELSE LET m == CHOOSE x \in S : \A y \in S : x = y \/ StrLess(x, y)
         IN <<m>> \o SortedByFileName(S \ {m})

Normal(node) == [aug |-> "Normal", node |-> node, entry |-> Entry("file", NoAtts)]

SubDir(name, e) == [aug |-> "SubDir", node |-> Enter(name, EncodeAtts(e)), entry |-> e]

\* The entries of a directory that metadata() succeeds on
Statted(dir) == {n \in DOMAIN dir.entries : dir.entries[n].kind # "nostat"}

SubDirsOf(dir, names) == [k \in 1..Len(names) |-> SubDir(Escaped(names[k]), dir.entries[names[k]])]

FilesOf(dir, names) ==
    [k \in 1..Len(names) |-> Normal(File(Escaped(names[k]), EncodeAtts(dir.entries[names[k]])))]

\* push_dir that puts the Sep behind the files
PushDirSepLast(todo, dir) ==
    LET IsDirName(n) == IsDir(dir.entries[n])
        IsFileName(n) == ~IsDir(dir.entries[n])
    IN SubDirsOf(dir, SelectSeq(SortedByFileName(Statted(dir)), IsDirName))
       \o FilesOf(dir, SelectSeq(SortedByFileName(Statted(dir)), IsFileName))
       \o <<Normal(Sep)>>
       \o <<Normal(Leave)>>
       \o todo

\* push_dir on a directory that read_dir succeeds on
PushDir(todo, dir) ==
    LET IsDirName(n) == IsDir(dir.entries[n])
        IsFileName(n) == ~IsDir(dir.entries[n])
    IN SubDirsOf(dir, SelectSeq(SortedByFileName(Statted(dir)), IsDirName))
       \o <<Normal(Sep)>>
       \o FilesOf(dir, SelectSeq(SortedByFileName(Statted(dir)), IsFileName))
       \o <<Normal(Leave)>>
       \o todo

\* push_empty_dir
PushEmptyDir(todo) == <<Normal(Sep), Normal(Leave)>> \o todo

IdleScanner == [fs |-> Entry("file", NoAtts), todo |-> <<>>, out |-> <<>>, errs |-> 0,
                status |-> "idle"]

\* scan_fs on a root that is a directory
ScanFs ==
    /\ sc.status = "idle" /\ IsDir(sc.fs)
    /\ sc' = [sc EXCEPT !.status = "run", !.todo = <<SubDir(RootName, sc.fs)>>]
    /\ UNCHANGED notScan

\* scan_fs: symlink_metadata fails, or Error::RootMustBeDir
ScanFsFails ==
    /\ sc.status = "idle" /\ ~IsDir(sc.fs)
    /\ sc' = [sc EXCEPT !.status = "err"]
    /\ UNCHANGED notScan

\* next: Some(AugNode::Normal(e))
ScanNextNormal ==
    /\ sc.status = "run" /\ Len(sc.todo) > 0 /\ Head(sc.todo).aug = "Normal"
    /\ sc' = [sc EXCEPT !.todo = Tail(@), !.out = Append(@, Head(sc.todo).node)]
    /\ UNCHANGED notScan

\* next: Some(AugNode::SubDir), the directory is read
ScanNextSubDir ==
    /\ sc.status = "run" /\ Len(sc.todo) > 0 /\ Head(sc.todo).aug = "SubDir"
    /\ Head(sc.todo).entry.kind = "dir"
    /\ sc' = [sc EXCEPT !.todo = PushDir(Tail(sc.todo), Head(sc.todo).entry),
                        !.out = Append(@, Head(sc.todo).node)]
    /\ UNCHANGED notScan

\* next: Some(AugNode::SubDir) on another device than the root
ScanNextMount ==
    /\ sc.status = "run" /\ Len(sc.todo) > 0 /\ Head(sc.todo).aug = "SubDir"
    /\ Head(sc.todo).entry.kind = "mount"
    /\ sc' = [sc EXCEPT !.todo = PushEmptyDir(Tail(sc.todo)),
                        !.out = Append(@, Head(sc.todo).node)]
    /\ UNCHANGED notScan

\* next: push_dir fails, `return Some(Err(e))`: the SubDir is gone from
\* todo and no Enter is returned for it
ScanNextReadError ==
    /\ sc.status = "run" /\ Len(sc.todo) > 0 /\ Head(sc.todo).aug = "SubDir"
    /\ Head(sc.todo).entry.kind = "noread"
    /\ sc' = [sc EXCEPT !.todo = Tail(@), !.errs = @ + 1]
    /\ UNCHANGED notScan

\* next: None
ScanNextNone ==
    /\ sc.status = "run" /\ Len(sc.todo) = 0
    /\ sc' = [sc EXCEPT !.status = "done"]
    /\ UNCHANGED notScan

(***************************************************************************)
(* src/node.rs: save_to and load_from.  A surefile is a sequence of bytes, *)
(* the names, keys and values of the nodes written to it are sequences of  *)
(* bytes as well (all of them ASCII here, so that String::from_utf8 is     *)
(* always Ok).                                                             *)
(***************************************************************************)
\* "asure-2.0" and "-----"
Magic == <<97, 115, 117, 114, 101, 45, 50, 46, 48>>

Dashes == <<45, 45, 45, 45, 45>>

\* `write!(out, "{} {} ", k, v)` over the keys of the BTreeMap in order
RECURSIVE AttsText(_, _)
AttsText(atts, keys) ==
    IF Len(keys) = 0 THEN <<>>
    ELSE Head(keys) \o <<32>> \o atts[Head(keys)] \o <<32>> \o AttsText(atts, Tail(keys))

\* header: kind, name, " [", the attributes, "]" and the newline
Header(kind, name, atts) ==
    <<kind>> \o name \o <<32, 91>> \o AttsText(atts, SortedByFileName(DOMAIN atts))
    \o <<93, 10>>

\* The line of a node with "u" for a Sep as well
NodeLineSepAsLeave(n) ==
    IF n.t = "Enter" THEN Header(100, n.name, n.atts)
    ELSE IF n.t = "File" THEN Header(102, n.name, n.atts)
    ELSE <<117, 10>>

\* The line of a node: 'd' or 'f' and the header, "-" or "u"
NodeLine(n) ==
    IF n.t = "Enter" THEN Header(100, n.name, n.atts)
    ELSE IF n.t = "File" THEN Header(102, n.name, n.atts)
    ELSE IF n.t = "Sep" THEN <<45, 10>>
    ELSE <<117, 10>>

RECURSIVE SaveNodes(_)
SaveNodes(nodes) ==
    IF Len(nodes) = 0 THEN <<>> ELSE NodeLine(Head(nodes)) \o SaveNodes(Tail(nodes))

SaveTo(nodes) == Magic \o <<10>> \o Dashes \o <<10>> \o SaveNodes(nodes)

\* Iterator::position: the first index of the byte, 0 for None
Position(text, b) ==
    IF \E i \in 1..Len(text) : text[i] = b
    THEN CHOOSE i \in 1..Len(text) : text[i] = b /\ \A j \in 1..(i - 1) : text[j] # b
    ELSE 0

SplitAt(text, p) == [ok |-> p > 0, head |-> SubSeq(text, 1, p - 1),
                     rest |-> SubSeq(text, p + 1, Len(text))]

\* get_delim: ok is FALSE where `unwrap` panics
GetDelim(text, delim) == SplitAt(text, Position(text, delim))

\* BufRead::split(b'\n')
RECURSIVE SplitRest(_), SplitLines(_)
SplitRest(s) == IF s.ok THEN <<s.head>> \o SplitLines(s.rest) ELSE <<s.rest>>

SplitLines(bytes) == IF Len(bytes) = 0 THEN <<>> ELSE SplitRest(GetDelim(bytes, 10))

NoEntity == [ok |-> FALSE, name |-> <<>>, atts |-> NoAtts]

\* decode_entity: the loop over the keys and values up to the "]"
RECURSIVE DecodeAtts(_, _, _), DecodeKey(_, _, _), DecodeValue(_, _, _, _)
DecodeAtts(name, text, atts) ==
    IF Len(text) = 0 THEN NoEntity
    ELSE IF Head(text) = 93 THEN [ok |-> TRUE, name |-> name, atts |-> atts]
    ELSE DecodeKey(name, GetDelim(text, 32), atts)

DecodeKey(name, k, atts) ==
    IF ~k.ok THEN NoEntity ELSE DecodeValue(name, k.head, GetDelim(k.rest, 32), atts)

DecodeValue(name, key, v, atts) ==
    IF ~v.ok THEN NoEntity ELSE DecodeAtts(name, v.rest, Insert(atts, key, v.head))

DecodeName(n) ==
    IF ~n.ok \/ Len(n.rest) = 0 \/ Head(n.rest) # 91 THEN NoEntity
    ELSE DecodeAtts(n.head, Tail(n.rest), NoAtts)

\* decode_entity: ok is FALSE where it panics
DecodeEntity(text) == DecodeName(GetDelim(text, 32))

Loaded(status, nodes) == [status |-> status, nodes |-> nodes]

\* ReadIterator::next, over and over until it is done or gives an Err
\* in a build with overflow checks, where a `u` line at depth 0 panics (the
\* calls one at a time, in either build, are the ReadNext actions below)
RECURSIVE ReadNodes(_, _, _), ReadEntity(_, _, _, _, _)
ReadNodes(lines, depth, acc) ==
    IF Len(lines) = 0 THEN Loaded("TruncatedSurefile", acc)
    ELSE IF Len(Head(lines)) = 0 THEN Loaded("panic", acc)
    ELSE IF Head(Head(lines)) = 100
    THEN ReadEntity("Enter", DecodeEntity(Tail(Head(lines))), Tail(lines), depth + 1, acc)
    ELSE IF Head(Head(lines)) = 102
    THEN ReadEntity("File", DecodeEntity(Tail(Head(lines))), Tail(lines), depth, acc)
    ELSE IF Head(Head(lines)) = 45 THEN ReadNodes(Tail(lines), depth, Append(acc, Sep))
    ELSE IF Head(Head(lines)) = 117
    THEN IF depth = 0 THEN Loaded("panic", acc)
         ELSE IF depth = 1 THEN Loaded("ok", Append(acc, Leave))
         ELSE ReadNodes(Tail(lines), depth - 1, Append(acc, Leave))
    ELSE Loaded("InvalidSurefileChar", acc)

ReadEntity(t, e, lines, depth, acc) ==
    IF ~e.ok THEN Loaded("panic", acc)
    ELSE ReadNodes(lines, depth, Append(acc, [t |-> t, name |-> e.name, atts |-> e.atts]))

\* fixed, twice: UnexpectedLine for another line, SureFileEof for none
Fixed(lines) ==
    IF Len(lines) = 0 THEN Loaded("SureFileEof", <<>>)
    ELSE IF lines[1] # Magic THEN Loaded("UnexpectedLine", <<>>)
    ELSE IF Len(lines) = 1 THEN Loaded("SureFileEof", <<>>)
    ELSE IF lines[2] # Dashes THEN Loaded("UnexpectedLine", <<>>)
    ELSE ReadNodes(SubSeq(lines, 3, Len(lines)), 0, <<>>)

\* load_from and all the nodes of its ReadIterator
LoadFrom(bytes) == Fixed(SplitLines(bytes))

(***************************************************************************)
(* src/node.rs: ReadIterator, one call of next at a time.  rd holds the    *)
(* body lines that BufRead::split gives after the two fixed lines, pos     *)
(* (how many were taken), depth and done, checks (whether the build has    *)
(* overflow checks: with them `depth -= 1` at 0 panics, without them it    *)
(* wraps), and calls: what each call of next returned, with depth and pos  *)
(* as the call left them.                                                  *)
(***************************************************************************)
\* usize::MAX; the width that is modelled stands for the 64 bits of the code
UsizeMax == 2^UsizeBits - 1

IdleRead == [lines |-> <<>>, pos |-> 0, depth |-> 0, done |-> FALSE, checks |-> TRUE,
             calls |-> <<>>, panic |-> FALSE]

\* Some(Err(e)) and None as items beside the nodes
ErrItem(e) == [t |-> e, name |-> <<>>, atts |-> NoAtts]

NoneItem == ErrItem("None")

\* A call of next that returned
NextReturned(item, depth, done, pos) ==
    [rd EXCEPT !.depth = depth, !.done = done, !.pos = pos,
               !.calls = Append(@, [item |-> item, depth |-> depth, pos |-> pos])]

\* A call of next that panicked
NextPanicked == [rd EXCEPT !.panic = TRUE, !.pos = IF @ < Len(rd.lines) THEN @ + 1 ELSE @,
                       !.calls = Append(@, [item |-> ErrItem("panic"), depth |-> rd.depth,
                                            pos |-> IF rd.pos < Len(rd.lines)
                                                    THEN rd.pos + 1 ELSE rd.pos])]

ReadCall == ~rd.panic /\ Len(rd.calls) < MaxReadLines + 2

\* The line that get_line takes
ReadLine == rd.lines[rd.pos + 1]

ReadHasLine(first) ==
    /\ ReadCall
    /\ ~rd.done
    /\ rd.pos < Len(rd.lines)
    /\ Len(ReadLine) > 0
    /\ ReadLine[1] \in first

\* The tree goes on after a Leave at any depth
LeaveDoneNever(depth) == FALSE

\* `if self.depth == 0 { self.done = true; }`
LeaveDone(depth) == depth = 0

\* if self.done { return None; }
ReadNextDone ==
    /\ ReadCall
    /\ rd.done
    /\ rd' = NextReturned(NoneItem, rd.depth, rd.done, rd.pos)
    /\ UNCHANGED notRead

\* get_line at the end of the input
ReadNextEof ==
    /\ ReadCall
    /\ ~rd.done
    /\ rd.pos = Len(rd.lines)
    /\ rd' = NextReturned(ErrItem("TruncatedSurefile"), rd.depth, rd.done, rd.pos)
    /\ UNCHANGED notRead

\* line[0] of a line of no bytes
ReadNextEmpty ==
    /\ ReadCall
    /\ ~rd.done
    /\ rd.pos < Len(rd.lines)
    /\ Len(ReadLine) = 0
    /\ rd' = NextPanicked
    /\ UNCHANGED notRead

\* b'd'
ReadNextEnter ==
    /\ ReadHasLine({100})
    /\ \E e \in {DecodeEntity(Tail(ReadLine))} :
           rd' = IF ~e.ok THEN NextPanicked
                 ELSE NextReturned(Enter(e.name, e.atts), (rd.depth + 1) % (UsizeMax + 1),
                               rd.done, rd.pos + 1)
    /\ UNCHANGED notRead

\* b'f'
ReadNextFile ==
    /\ ReadHasLine({102})
    /\ \E e \in {DecodeEntity(Tail(ReadLine))} :
           rd' = IF ~e.ok THEN NextPanicked
                 ELSE NextReturned(File(e.name, e.atts), rd.depth, rd.done, rd.pos + 1)
    /\ UNCHANGED notRead

\* b'-'
ReadNextSep ==
    /\ ReadHasLine({45})
    /\ rd' = NextReturned(Sep, rd.depth, rd.done, rd.pos + 1)
    /\ UNCHANGED notRead

\* b'u'
ReadNextLeave ==
    /\ ReadHasLine({117})
    /\ rd' = IF rd.depth = 0 /\ rd.checks THEN NextPanicked
             ELSE \* depth - 1 modulo 2^w
                  NextReturned(Leave, (rd.depth + UsizeMax) % (UsizeMax + 1),
                           LeaveDone((rd.depth + UsizeMax) % (UsizeMax + 1)), rd.pos + 1)
    /\ UNCHANGED notRead

\* ch
ReadNextInvalid ==
    /\ ReadHasLine(0..255 \ {100, 102, 45, 117})
    /\ rd' = NextReturned(ErrItem("InvalidSurefileChar"), rd.depth, rd.done, rd.pos + 1)
    /\ UNCHANGED notRead

(***************************************************************************)
(* src/node/compare.rs: compare_trees.  The comparator cmp: L and R are    *)
(* the nodes of the two iterators, T is R as it was before it went through *)
(* a surefile, li and ri count the nodes taken, left and right are the     *)
(* nodes of State, stack holds the calls of the walk_ functions that are   *)
(* open (fn and dir), events the lines printed.  The streams compared are  *)
(* well-formed, so that SureNode::name is never asked of a Sep or a Leave. *)
(***************************************************************************)
\* "kind", "ctime", "ino" and "???"
KindKey == <<107, 105, 110, 100>>

CtimeKey == <<99, 116, 105, 109, 101>>

InoKey == <<105, 110, 111>>

NoKind == <<63, 63, 63>>

\* SureNode::kind
Kind(n) == IF HasName(n) /\ KindKey \in DOMAIN n.atts THEN n.atts[KindKey] ELSE NoKind

IdleCompare == [L |-> <<>>, R |-> <<>>, T |-> <<>>, reloaded |-> FALSE, li |-> 0, ri |-> 0,
                left |-> Leave, right |-> Leave, stack |-> <<>>, events |-> <<>>,
                adds |-> {}, missings |-> {}, status |-> "idle", ignore |-> {}]

Frame(fn, dir) == [fn |-> fn, dir |-> dir]

Top(c) == c.stack[Len(c.stack)]

At(c, fn) == c.status = "run" /\ Len(c.stack) > 0 /\ Top(c).fn = fn

\* SureNode::name panics: walk_samedir meets a Leave, walk_samefiles a Sep
NameOfNameless(c) ==
    \/ At(c, "samedir") /\ "Leave" \in {c.left.t, c.right.t}
    \/ At(c, "samefiles") /\ "Sep" \in {c.left.t, c.right.t}

\* In a turn of the loop of the walk_ function fn
In(c, fn) == At(c, fn) /\ ~NameOfNameless(c)

\* What an iterator gives for its node i; next_left and next_right put a
\* Leave in the place of None
NextNode(s, i) == IF i > Len(s) THEN Leave ELSE s[i]

NextLeftOf(c) == [c EXCEPT !.li = @ + 1, !.left = NextNode(c.L, c.li + 1)]

NextRightOf(c) == [c EXCEPT !.ri = @ + 1, !.right = NextNode(c.R, c.ri + 1)]

Event(action, kind, path, diffs) ==
    [action |-> action, kind |-> kind, path |-> path, diffs |-> diffs]

\* show_add that prints nothing
ShowAddNothing(c, dir) == c

\* show_add
ShowAdd(c, dir) ==
    [c EXCEPT !.events = Append(@, Event("Add", Kind(c.right), Append(dir, c.right.name), <<>>))]

\* show_delete
ShowDelete(c, dir) ==
    [c EXCEPT !.events = Append(@, Event("Delete", Kind(c.left), Append(dir, c.left.name), <<>>))]

\* The attributes when ctime and ino are not put into the ignore set
UnignoredNothing(atts) == atts

\* The attributes without the keys compare_trees always ignores: ctime, ino
Unignored(atts) == [k \in DOMAIN atts \ {CtimeKey, InoKey} |-> atts[k]]

\* The keys of new that old has with another value
Diffs(old, new) == {k \in DOMAIN new \cap DOMAIN old : new[k] # old[k]}

WithDiffs(c, diffs, dir) ==
    IF diffs = {} THEN c
    ELSE [c EXCEPT !.events = Append(@, Event("Modify", <<>>, dir, SortedByFileName(diffs)))]

CompareMaps(c, old, new, dir) ==
    WithDiffs([c EXCEPT !.adds = @ \cup (DOMAIN new \ DOMAIN old),
                        !.missings = @ \cup (DOMAIN old \ DOMAIN new)],
              Diffs(old, new), dir)

\* The attributes without the keys the caller of compare_trees ignores
Ignoring(atts, keys) == [k \in DOMAIN atts \ keys |-> atts[k]]

\* compare_atts, for compare_enter and compare_file; c.ignore are the keys
\* the caller of compare_trees gave
CompareAtts(c, dir) ==
    CompareMaps(c, Ignoring(Unignored(c.left.atts), c.ignore),
                Ignoring(Unignored(c.right.atts), c.ignore), dir)

\* The call of a walk_ function
Call(c, f) == [c EXCEPT !.stack = Append(@, f)]

\* `return self.walk_samefiles(dir)`
TailCall(c, f) == [c EXCEPT !.stack = Append(Front(@), f)]

\* The return of the walk_ function on top; compare_trees returns Ok with
\* the return of the last one
Return(c) ==
    [c EXCEPT !.stack = Front(@), !.status = IF Len(c.stack) = 1 THEN "ok" ELSE "run"]

\* `<=` in the place of `<`
NameLessOrEqual(l, r) == ~StrLess(r.name, l.name)

\* `self.left.name() < self.right.name()`
NameLess(l, r) == StrLess(l.name, r.name)

\* The arms of the match of walk_samedir (end a Sep) and of walk_samefiles
\* (end a Leave), in their order
BothEnd(c, end) == c.left.t = end /\ c.right.t = end

LeftOnly(c, end) ==
    /\ c.left.t # end
    /\ c.right.t = end \/ NameLess(c.left, c.right)

RightOnly(c, end) ==
    /\ c.right.t # end
    /\ c.left.t = end \/ (~NameLess(c.left, c.right) /\ NameLess(c.right, c.left))

Same(c, end) ==
    /\ c.left.t # end /\ c.right.t # end
    /\ ~NameLess(c.left, c.right) /\ ~NameLess(c.right, c.left)

\* load_from of what save_to has written of the right stream, as in the
\* test save_writer
CompareReload ==
    /\ cmp.status = "idle" /\ ~cmp.reloaded
    /\ \E r \in {LoadFrom(SaveTo(cmp.R))} :
           cmp' = [cmp EXCEPT !.R = r.nodes, !.reloaded = TRUE,
                              !.status = IF r.status = "ok" THEN "idle" ELSE r.status]
    /\ UNCHANGED notCompare

RootsOk(c) ==
    /\ c.left.t = "Enter" /\ c.right.t = "Enter"
    /\ c.left.name = RootName /\ c.right.name = RootName

\* walk_root on the first nodes of the two iterators
WalkRoot(c, dir) ==
    IF RootsOk(c)
    THEN Call(NextRightOf(NextLeftOf(CompareAtts(c, dir))), Frame("samedir", dir))
    ELSE [c EXCEPT !.status = "err"]

\* compare_trees up to the call of walk_samedir
CompareTrees ==
    /\ cmp.status = "idle"
    /\ cmp' = IF Len(cmp.L) = 0 \/ Len(cmp.R) = 0 THEN [cmp EXCEPT !.status = "err"]
              ELSE WalkRoot([cmp EXCEPT !.status = "run", !.li = 1, !.ri = 1,
                                        !.left = cmp.L[1], !.right = cmp.R[1]], <<>>)
    /\ UNCHANGED notCompare

\* walk_samedir: (true, true)
WalkSameDirSep ==
    /\ In(cmp, "samedir") /\ BothEnd(cmp, "Sep")
    /\ cmp' = TailCall(NextRightOf(NextLeftOf(cmp)), Frame("samefiles", Top(cmp).dir))
    /\ UNCHANGED notCompare

\* walk_samedir: a directory of the left only
WalkSameDirDelete ==
    /\ In(cmp, "samedir") /\ LeftOnly(cmp, "Sep")
    /\ cmp' = Call(NextLeftOf(ShowDelete(cmp, Top(cmp).dir)), Frame("leftdir", <<>>))
    /\ UNCHANGED notCompare

\* walk_samedir: a directory of the right only
WalkSameDirAdd ==
    /\ In(cmp, "samedir") /\ RightOnly(cmp, "Sep")
    /\ cmp' = Call(NextRightOf(ShowAdd(cmp, Top(cmp).dir)), Frame("rightdir", <<>>))
    /\ UNCHANGED notCompare

\* walk_samedir: the same directory in both
WalkSameDirSame ==
    /\ In(cmp, "samedir") /\ Same(cmp, "Sep")
    /\ cmp' = Call(NextRightOf(NextLeftOf(CompareAtts(cmp, Append(Top(cmp).dir, cmp.left.name)))),
                   Frame("samedir", Append(Top(cmp).dir, cmp.left.name)))
    /\ UNCHANGED notCompare

\* walk_samefiles: (true, true)
WalkSameFilesLeave ==
    /\ In(cmp, "samefiles") /\ BothEnd(cmp, "Leave")
    /\ cmp' = Return(NextRightOf(NextLeftOf(cmp)))
    /\ UNCHANGED notCompare

\* walk_samefiles: a file of the left only
WalkSameFilesDelete ==
    /\ In(cmp, "samefiles") /\ LeftOnly(cmp, "Leave")
    /\ cmp' = NextLeftOf(ShowDelete(cmp, Top(cmp).dir))
    /\ UNCHANGED notCompare

\* walk_samefiles: a file of the right only
WalkSameFilesAdd ==
    /\ In(cmp, "samefiles") /\ RightOnly(cmp, "Leave")
    /\ cmp' = NextRightOf(ShowAdd(cmp, Top(cmp).dir))
    /\ UNCHANGED notCompare

\* walk_samefiles: the same file in both
WalkSameFilesSame ==
    /\ In(cmp, "samefiles") /\ Same(cmp, "Leave")
    /\ cmp' = NextRightOf(NextLeftOf(CompareAtts(cmp, Append(Top(cmp).dir, cmp.left.name))))
    /\ UNCHANGED notCompare

\* walk_leftdir, one turn of its loop
WalkLeftDir ==
    /\ In(cmp, "leftdir")
    /\ cmp' = IF cmp.left.t = "Enter" THEN Call(NextLeftOf(cmp), Frame("leftdir", <<>>))
              ELSE IF cmp.left.t = "Leave" THEN Return(NextLeftOf(cmp))
              ELSE NextLeftOf(cmp)
    /\ UNCHANGED notCompare

\* walk_rightdir, one turn of its loop
WalkRightDir ==
    /\ In(cmp, "rightdir")
    /\ cmp' = IF cmp.right.t = "Enter" THEN Call(NextRightOf(cmp), Frame("rightdir", <<>>))
              ELSE IF cmp.right.t = "Leave" THEN Return(NextRightOf(cmp))
              ELSE NextRightOf(cmp)
    /\ UNCHANGED notCompare

(***************************************************************************)
(* src/escape.rs: escaped and unescape at work.  es holds bytes (what is   *)
(* escaped), text (the escaped string, or a string that comes from         *)
(* elsewhere), out (what unescape has returned) and phase: "bytes" (to be  *)
(* escaped), "text" (to be unescaped) or "done".                           *)
(***************************************************************************)
NoUnescape == [ok |-> FALSE, bytes |-> <<>>, err |-> "none", ch |-> 0]

IdleEscape == [bytes |-> <<>>, text |-> <<>>, out |-> NoUnescape, phase |-> "idle",
               escaped |-> FALSE]

\* bytes.escaped()
EscapeBytes ==
    /\ es.phase = "bytes"
    /\ es' = [es EXCEPT !.text = Escaped(es.bytes), !.phase = "text", !.escaped = TRUE]
    /\ UNCHANGED notEscape

\* text.unescape()
UnescapeText ==
    /\ es.phase = "text"
    /\ es' = [es EXCEPT !.out = Unescape(es.text), !.phase = "done"]
    /\ UNCHANGED notEscape

(***************************************************************************)
(* src/node.rs: save_to and load_from at work.  sf holds src (the stream   *)
(* that is saved), bytes (the surefile), res (what load_from and its       *)
(* ReadIterator have given) and phase: "src" (to be saved), "file" (to be  *)
(* loaded) or "done".                                                      *)
(***************************************************************************)
IdleSure == [src |-> <<>>, bytes |-> <<>>, res |-> Loaded("none", <<>>), phase |-> "idle",
             saved |-> FALSE]

\* save_to into a Vec<u8>
SureSave ==
    /\ sf.phase = "src"
    /\ sf' = [sf EXCEPT !.bytes = SaveTo(sf.src), !.phase = "file", !.saved = TRUE]
    /\ UNCHANGED notSure

\* load_from, and next on its ReadIterator until None or an Err
SureLoad ==
    /\ sf.phase = "file"
    /\ sf' = [sf EXCEPT !.res = LoadFrom(sf.bytes), !.phase = "done"]
    /\ UNCHANGED notSure

(***************************************************************************)
(* src/store/weave.rs: the WeaveStore.  write_new adds a version to the    *)
(* weave file, load_iter reads one back: a child thread parses the weave   *)
(* and sends the kept lines over a channel, the caller checks the two      *)
(* fixed lines and hands out a WeaveIter on the rest.  No I/O fault is     *)
(* injected here; the writers under faults are the actions on the weave    *)
(* files above.                                                            *)
(***************************************************************************)
MagicLine == <<"a", "s", "u", "r", "e", "-", "2", ".", "0">>

DashesLine == <<"-", "-", "-", "-", "-">>

\* The lines after the two fixed ones: Sep, Leave, and a File whose text
\* has a digit before a letter (a name as "1a", or any hex digest)
StoreLines == {<<"-">>, <<"u">>, <<"f", "1", "a">>}

\* What SureTree::save_to and node::save_to write
StoreContents == {<<MagicLine, DashesLine>> \o b : b \in SeqsUpTo(StoreLines, MaxStoreLines)}

\* Version (store.rs:77-81)
TagTexts == {<<"0">>, <<"1">>, <<"2">>, <<"3">>, <<"x">>, <<>>}

Versions == {[kind |-> "Latest", text |-> <<>>], [kind |-> "Prior", text |-> <<>>]}
            \cup {[kind |-> "Tagged", text |-> t] : t \in TagTexts}

NoVersion == [kind |-> "none", text |-> <<>>]

NoResult == [status |-> "none", items |-> <<>>, end |-> "none"]

\* main is the weave file, written the contents given to write_new so far;
\* of the last write_new that went through DeltaWriter, prev is the weave
\* file before it, diff the output of diff and nd the number of the new
\* delta (0: the last write_new wrote a new weave file)
IdleStore == [main |-> NoFile, written |-> <<>>, version |-> NoVersion,
              res |-> NoResult, nops |-> 0, prev |-> NoFile, diff |-> <<>>,
              nd |-> 0]

\* weave::get_last_delta: the highest number of the deltas of the header;
\* an error when the file cannot be read or its header names no delta
GetLastDelta(main) ==
    IF ~main.exists \/ Len(main.data) = 0 THEN [ok |-> FALSE, last |-> 0]
    ELSE [ok |-> HeaderDecode(main.data[1]).ok /\ Len(HeaderDecode(main.data[1]).deltas) > 0,
          last |-> MaxNumber(HeaderDecode(main.data[1]).deltas)]

\* `match version { Latest => last, Prior => last - 1,
\*                  Tagged(vers) => vers.parse()? }` (weave.rs:97-101)
Resolve(version, last) ==
    IF version.kind = "Latest" THEN [ok |-> TRUE, delta |-> last]
    ELSE IF version.kind = "Prior" THEN [ok |-> last > 0, delta |-> last - 1]
    ELSE IF ParsesAsNum(version.text) THEN [ok |-> TRUE, delta |-> NumVal(version.text)]
    ELSE [ok |-> FALSE, delta |-> 0]

\* read_parse (weave.rs:280-293) with the ReadSync sink: what the channel
\* carries, the kept lines and then None ("eof"), Some(Err) ("err"), or
\* nothing more when the child thread has panicked ("hangup")
ReadParse(x) ==
    [lines |-> x.lines,
     end |-> IF x.status = "ok" THEN "eof" ELSE IF x.status = "err" THEN "err" ELSE "hangup"]

\* fixed (weave.rs:297-310) on the k-th message of the channel
FixedOk(chan, k, expect) == Len(chan.lines) >= k /\ chan.lines[k] = expect

\* WeaveIter::next on a line (weave.rs:260-274): only the first byte tells
\* Sep and Leave; the text of an Enter or a File goes to decode_entity
IterItem(line) ==
    IF Len(line) = 0 THEN [kind |-> "panic", text |-> <<>>]
    ELSE IF line[1] = "d" THEN [kind |-> "Enter", text |-> Tail(line)]
    ELSE IF line[1] = "f" THEN [kind |-> "File", text |-> Tail(line)]
    ELSE IF line[1] = "-" THEN [kind |-> "Sep", text |-> <<>>]
    ELSE IF line[1] = "u" THEN [kind |-> "Leave", text |-> <<>>]
    ELSE [kind |-> "Err", text |-> <<>>]

IterItems(lines) == [k \in 1..Len(lines) |-> IterItem(lines[k])]

\* The two calls of fixed and the WeaveIter (weave.rs:114-120)
Received(chan) ==
    IF FixedOk(chan, 1, MagicLine) /\ FixedOk(chan, 2, DashesLine)
    THEN [status |-> "ok", items |-> IterItems(SubSeq(chan.lines, 3, Len(chan.lines))),
          end |-> chan.end]
    ELSE [status |-> "err", items |-> <<>>, end |-> "none"]

LoadFailed(kind) == [status |-> kind, items |-> <<>>, end |-> "none"]

\* WeaveStore::load_iter (weave.rs:95-121)
LoadIterOf(main, version) ==
    IF ~GetLastDelta(main).ok THEN LoadFailed("err")
    ELSE IF ~Resolve(version, GetLastDelta(main).last).ok
    THEN LoadFailed(IF version.kind = "Tagged" THEN "ParseIntError" ELSE "panic")
    ELSE Received(ReadParse(Extract(main.data, Resolve(version, GetLastDelta(main).last).delta)))

StoreLoadIter(version) ==
    /\ store.main.exists
    /\ store' = [store EXCEPT !.version = version, !.res = LoadIterOf(store.main, version)]
    /\ UNCHANGED notStore

\* The weave file of NewWeave::new, the writes and close (newweave.rs:20-56)
NewWeaveFile(c) ==
    <<HeaderLine(HeaderAdd(DefaultHeader, <<"n">>).header), CtlLine("I", 1)>>
    \o c \o <<CtlLine("E", 1)>>

Wrote(file, written, nops) ==
    [IdleStore EXCEPT !.main = file, !.written = written, !.nops = nops]

\* write_new when get_last_delta fails (weave.rs:42-50): a new weave file
StoreWriteNewWeave(c) ==
    /\ store.nops < MaxStoreWrites
    /\ ~GetLastDelta(store.main).ok
    /\ store' = Wrote(FileOf(NewWeaveFile(c)), <<c>>, store.nops + 1)
    /\ UNCHANGED notStore

\* write_new when get_last_delta gives the base (weave.rs:36-41):
\* DeltaWriter::new extracts the base, close runs diff and writes the weave;
\* an error of either leaves the weave file as it is
StoreWriteNewDelta(c) ==
    /\ store.nops < MaxStoreWrites
    /\ GetLastDelta(store.main).ok
    /\ \E base \in {GetLastDelta(store.main).last} :
         \E x \in {Extract(store.main.data, base)} :
           /\ BuildOk(x)
           /\ \E diff \in DiffOutputs(x.lines, c) :
                \E r \in {BuildWeave(store.main.data, base, base + 1, diff)} :
                  /\ BuildOk(r)
                  /\ store' = [Wrote(FileOf(r.lines), Append(store.written, c),
                                     store.nops + 1)
                                 EXCEPT !.prev = store.main, !.diff = diff,
                                        !.nd = base + 1]
    /\ UNCHANGED notStore

(***************************************************************************)
(* naming/src/lib.rs: Naming, whose temp_file starts its search at the     *)
(* cursor next_temp.  nc holds files (the numbers n whose name <base>.<n>  *)
(* exists), next_temp, rets (what each call of temp_file returned),        *)
(* scans (what the loop of SimpleNaming::temp_file, which starts at 0,     *)
(* returns in the directory as each call found it) and clean (no file was  *)
(* taken away and no call failed so far).  One owner calls temp_file, so a *)
(* call is one step.                                                       *)
(***************************************************************************)
CursorNames == 0..(NumCursorNames - 1)

IdleCursor == [files |-> {}, next_temp |-> 0, rets |-> <<>>, scans |-> <<>>,
               clean |-> TRUE, empty |-> TRUE]

\* The loop of temp_file from n on: the first name that create_new can create
ScanFrom(files, n) ==
    CHOOSE i \in CursorNames : i >= n /\ i \notin files /\ \A j \in n..(i - 1) : j \in files

CanScanFrom(files, n) == \E i \in CursorNames : i >= n /\ i \notin files

\* SimpleNaming::temp_file (weave/src/naming.rs:110-123)
SimpleTempFile(files) == ScanFrom(files, 0)

CursorCall == Len(nc.rets) < NumCursorNames /\ CanScanFrom(nc.files, nc.next_temp)

\* Naming::temp_file returns Ok((name, fd)): the loop starts at next_temp
NamingTempFile ==
    /\ CursorCall
    /\ \E n \in {ScanFrom(nc.files, nc.next_temp)} :
           nc' = [nc EXCEPT !.files = @ \cup {n}, !.next_temp = n + 1,
                            !.rets = Append(@, n),
                            !.scans = Append(@, SimpleTempFile(nc.files))]
    /\ UNCHANGED notCursor

\* Naming::temp_file returns Err: the open of the first name that is free
\* fails with an error other than AlreadyExists, after the cursor was set
NamingTempFileFails ==
    /\ CursorCall
    /\ \E n \in {ScanFrom(nc.files, nc.next_temp)} :
           nc' = [nc EXCEPT !.next_temp = n + 1, !.clean = FALSE]
    /\ UNCHANGED notCursor

\* A temp file leaves its name: rename_to_main, the remove_file of its
\* owner, or the cleanup of a Naming that is dropped
NamingRelease(n) ==
    /\ n \in nc.files
    /\ nc' = [nc EXCEPT !.files = @ \ {n}, !.clean = FALSE]
    /\ UNCHANGED notCursor

(***************************************************************************)
(* weave/src/naming.rs: SimpleNaming::temp_file, and src/store/plain.rs:   *)
(* Plain::temp_file, which is the same loop.  Several callers (threads or  *)
(* processes) work on one directory and one base name; each open is one    *)
(* system call and is a step of its own, so that the calls interleave.     *)
(* A file: exists, owner (the caller whose temp_file created it, 0 for a   *)
(* file nobody holds) and data ("old" for a file that was there before,    *)
(* "empty" as created, "written" once its holder has written to it); old   *)
(* is the set of the names that had a file at the start.                   *)
(***************************************************************************)
Callers == 1..NumCallers

TempNames == 0..(NumNames - 1)

NoTemp == [exists |-> FALSE, owner |-> 0, data |-> "empty"]

OldTemp == [exists |-> TRUE, owner |-> 0, data |-> "old"]

IdleCaller == [pc |-> "idle", n |-> 0, path |-> 0, fresh |-> TRUE, result |-> "none"]

IdleNaming == [files |-> [i \in TempNames |-> NoTemp], old |-> {},
               callers |-> [p \in Callers |-> IdleCaller]]

\* OpenOptions::new().write(true).create(true).truncate(true).open(&name)
OpenTruncate(files, n, p) ==
    [ok |-> TRUE,
     files |-> [files EXCEPT ![n] = [exists |-> TRUE, owner |-> p, data |-> "empty"]]]

\* OpenOptions::new().write(true).create_new(true).open(&name): the file is
\* created if and only if nothing has that name, in one step
OpenCreateNew(files, n, p) ==
    IF files[n].exists THEN [ok |-> FALSE, files |-> files]
    ELSE [ok |-> TRUE,
          files |-> [files EXCEPT ![n] = [exists |-> TRUE, owner |-> p, data |-> "empty"]]]

\* temp_file is called: `let mut n = 0;`
TempFileCall(p) ==
    /\ tf.callers[p].pc = "idle"
    /\ tf' = [tf EXCEPT !.callers[p] = [IdleCaller EXCEPT !.pc = "open"]]
    /\ UNCHANGED notNaming

\* One turn of the loop after the open r (naming.rs:113-121): Ok returns
\* the name, AlreadyExists goes on with n + 1
TempFileTurn(p, r) ==
    tf' = IF r.ok
          THEN [tf EXCEPT !.files = r.files,
                          !.callers[p] = [@ EXCEPT !.pc = "held",
                                                   !.path = tf.callers[p].n,
                                                   !.fresh = ~tf.files[tf.callers[p].n].exists,
                                                   !.result = "ok"]]
          ELSE [tf EXCEPT !.callers[p].n = @ + 1]

TempFileOpen(p) ==
    /\ tf.callers[p].pc = "open" /\ tf.callers[p].n < NumNames
    /\ TempFileTurn(p, OpenCreateNew(tf.files, tf.callers[p].n, p))
    /\ UNCHANGED notNaming

\* `Err(e) => return Err(e.into())`: the open fails for another reason
TempFileOpenFails(p) ==
    /\ tf.callers[p].pc = "open" /\ tf.callers[p].n < NumNames
    /\ tf' = [tf EXCEPT !.callers[p] = [IdleCaller EXCEPT !.result = "err"]]
    /\ UNCHANGED notNaming

\* The holder writes to the File it was given
HolderWrite(p) ==
    /\ tf.callers[p].pc = "held" /\ tf.files[tf.callers[p].path].data # "written"
    /\ tf' = [tf EXCEPT !.files[tf.callers[p].path].data = "written"]
    /\ UNCHANGED notNaming

\* The holder renames its file to the main name or removes it
HolderRelease(p) ==
    /\ tf.callers[p].pc = "held"
    /\ tf' = [tf EXCEPT !.files[tf.callers[p].path] = NoTemp,
                        !.callers[p] = [@ EXCEPT !.pc = "idle"]]
    /\ UNCHANGED notNaming

\* The holder ends and leaves its file behind (RSURE_KEEP, or it is killed)
HolderKeep(p) ==
    /\ tf.callers[p].pc = "held"
    /\ tf' = [tf EXCEPT !.files[tf.callers[p].path].owner = 0,
                        !.callers[p] = [@ EXCEPT !.pc = "idle"]]
    /\ UNCHANGED notNaming

(***************************************************************************)
(* weave/src/parse.rs, Parser::parse_to run one source line at a time.     *)
(* ps.p is the parser (as NewRaw builds it), ps.phase says where the       *)
(* caller is: "idle" between two calls of parse_to, "loop" inside one,     *)
(* "end" once parse_to returned 0, returned Err or panicked.  For the      *)
(* step just taken ps.read tells whether it read a line, ps.line is that   *)
(* line, ps.was the parser before the step and ps.ev the calls the step    *)
(* made on the sink.                                                       *)
(***************************************************************************)
ParseNums == {1, 2}

PlainText == <<"A">>

\* A control line of a kind the parser does not know
OtherCtl == <<SOH, "X", " ", "1">>

\* An insert line whose number is not a number
BadNumCtl == <<SOH, "I", " ", "x">>

ParseLineSet ==
    {PlainText, OtherCtl, BadNumCtl}
        \cup {CtlLine(c, n) : c \in {"I", "D", "E"}, n \in ParseNums}

ParseBodies == UNION {[1..n -> ParseLineSet] : n \in 0..MaxParseLen}

NoParser == NewRaw(<<>>, 0)

IdleParse == [phase |-> "off", file |-> <<>>, p |-> NoParser, target |-> 0,
              read |-> FALSE, line |-> <<>>, was |-> NoParser, ev |-> <<>>]

\* Parser::new on a file of a header line and a body
ParseStart(body, delta) ==
    [IdleParse EXCEPT !.phase = "idle",
                      !.file = <<HeaderLine(DefaultHeader)>> \o body,
                      !.p = NewRaw(<<HeaderLine(DefaultHeader)>> \o body, delta)]

\* The calls a step makes on the sink
PlainEv(text, keep) == [kind |-> "plain", text |-> text, keep |-> keep, n |-> 0]

CtlEv(c, n) == [kind |-> c, text |-> <<>>, keep |-> FALSE, n |-> n]

\* parse.rs:142-147: parse_to is called, the pending line goes to the sink
ParseToCall(t) ==
    /\ ps.phase = "idle"
    /\ ps.p.status = "ok"
    /\ ps' = [ps EXCEPT
                !.phase = "loop", !.target = t, !.read = FALSE, !.line = <<>>,
                !.was = ps.p,
                !.ev = IF Len(ps.p.pending) > 0
                       THEN <<PlainEv(ps.p.pending[1], ps.p.keeping)>> ELSE <<>>,
                !.p = IF Len(ps.p.pending) > 0
                      THEN [ps.p EXCEPT !.pending = <<>>,
                                        !.out = SinkPlain(@, "rev", ps.p.pending[1],
                                                          ps.p.keeping)]
                      ELSE ps.p]
    /\ UNCHANGED notParse

\* parse.rs:150-153: the source is at its end
ParseEof ==
    /\ ps.phase = "loop"
    /\ Len(ps.p.src) = 0
    /\ ps' = [ps EXCEPT !.phase = "end", !.read = FALSE, !.line = <<>>,
                        !.was = ps.p, !.ev = <<>>, !.p = [ps.p EXCEPT !.ret = 0]]
    /\ UNCHANGED notParse

\* parse.rs:164-179: a textual line
ParsePlainLine ==
    /\ ps.phase = "loop"
    /\ Len(ps.p.src) > 0
    /\ Textual(Head(ps.p.src))
    /\ LET line == Head(ps.p.src)
           q == [ps.p EXCEPT !.src = Tail(@)]
           stop == ps.p.keeping /\ ps.p.lineno + 1 = ps.target
       IN ps' = [ps EXCEPT
                   !.phase = IF stop THEN "idle" ELSE "loop",
                   !.read = TRUE, !.line = line, !.was = ps.p,
                   !.ev = IF stop THEN <<>> ELSE <<PlainEv(line, ps.p.keeping)>>,
                   !.p = IF stop
                         THEN [q EXCEPT !.lineno = @ + 1, !.pending = <<line>>,
                                        !.ret = ps.target]
                         ELSE [q EXCEPT !.lineno = IF ps.p.keeping THEN @ + 1 ELSE @,
                                        !.out = SinkPlain(@, "rev", line, ps.p.keeping)]]
    /\ UNCHANGED notParse

\* parse.rs:184-192: a control line that is too short or of another kind
ParseSkippedLine ==
    /\ ps.phase = "loop"
    /\ Len(ps.p.src) > 0
    /\ ~Textual(Head(ps.p.src))
    /\ Len(Head(ps.p.src)) < 4 \/ Head(ps.p.src)[2] \notin {"I", "D", "E"}
    /\ ps' = [ps EXCEPT !.read = TRUE, !.line = Head(ps.p.src), !.was = ps.p,
                        !.ev = <<>>, !.p = [ps.p EXCEPT !.src = Tail(@)]]
    /\ UNCHANGED notParse

\* parse.rs:194-226: an insert, delete or end line
ParseControlLine ==
    /\ ps.phase = "loop"
    /\ Len(ps.p.src) > 0
    /\ ~Textual(Head(ps.p.src))
    /\ Len(Head(ps.p.src)) >= 4
    /\ Head(ps.p.src)[2] \in {"I", "D", "E"}
    /\ LET line == Head(ps.p.src)
           num == SubSeq(line, 4, Len(line))
           q == [ps.p EXCEPT !.src = Tail(@)]
           r == IF ParsesAsNum(num) THEN ParseCtl(q, "rev", line[2], NumVal(num))
                ELSE [q EXCEPT !.status = "err"]
       IN ps' = [ps EXCEPT
                   !.phase = IF r.status = "ok" THEN "loop" ELSE "end",
                   !.read = TRUE, !.line = line, !.was = ps.p,
                   !.ev = IF ParsesAsNum(num) THEN <<CtlEv(line[2], NumVal(num))>>
                          ELSE <<>>,
                   !.p = r]
    /\ UNCHANGED notParse

(***************************************************************************)
(* The specifications: one for each part of the program.  Each starts its  *)
(* own part and leaves the other parts idle.                               *)
(***************************************************************************)
WeaveInit ==
    /\ mainf = NoFile
    /\ bakf = NoFile
    /\ temps = [i \in TempIds |-> NoFile]
    /\ wr = IdleWriter
    /\ faults = MaxFaults
    /\ hist = <<>>
    /\ pre = NoFile
    /\ tagged = <<>>
    /\ nc = IdleCursor
    /\ rd = IdleRead
    /\ tk = IdleTrack
    /\ ps = IdleParse
    /\ tf = IdleNaming
    /\ store = IdleStore
    /\ sf = IdleSure
    /\ es = IdleEscape
    /\ hc = IdleCombiner
    /\ hu = IdleUpdater
    /\ sc = IdleScanner
    /\ cmp = IdleCompare

WeaveNext ==
    \/ \E c \in Contents : NewWeaveNew(c)
    \/ NewWeaveNewFails
    \/ NewWeaveWrite
    \/ NewWeaveWriteFails
    \/ NewWeaveCloseEnd
    \/ NewWeaveCloseEndFails
    \/ DropWriter
    \/ DropWriterFails
    \/ RenameBackup
    \/ RenameBackupFails
    \/ RenameMain
    \/ RenameMainFails
    \/ \E base \in 1..MaxWrites, c \in Contents, name \in TagNames : DeltaNew(base, c, name)
    \/ \E base \in 1..MaxWrites, c \in Contents, name \in TagNames :
           DeltaNewTruncated(base, c, name)
    \/ DeltaNewFails
    \/ DeltaWrite
    \/ DeltaWriteFails
    \/ DeltaCloseBuild
    \/ DeltaCloseBuildTruncated
    \/ DeltaCloseBuildFails
    \/ RemoveBase
    \/ RemoveBaseFails
    \/ RemoveNew
    \/ RemoveNewFails
    \/ DropWithoutClose
    \/ Crash

SpecWeave == WeaveInit /\ [][WeaveNext]_vars

\* The steps of a writer at work that no fault stops: the code of new, write
\* and close runs on to its end
WriterStep ==
    \/ NewWeaveWrite
    \/ NewWeaveCloseEnd
    \/ DropWriter
    \/ RenameBackup
    \/ RenameMain
    \/ DeltaWrite
    \/ RemoveBase
    \/ RemoveNew

\* DeltaCloseBuild is enabled exactly here
CloseBuildReady == wr.kind = "delta" /\ wr.pc = "write" /\ Len(wr.todo) = 0

\* The writers when no I/O fault is injected and the process is not killed:
\* every operation returns, with Ok or Err, or its writer is dropped
WeaveLiveInit ==
    /\ mainf = NoFile
    /\ bakf = NoFile
    /\ temps = [i \in TempIds |-> NoFile]
    /\ wr = IdleWriter
    /\ faults = 0
    /\ hist = <<>>
    /\ pre = NoFile
    /\ tagged = <<>>
    /\ nc = IdleCursor
    /\ rd = IdleRead
    /\ tk = IdleTrack
    /\ ps = IdleParse
    /\ tf = IdleNaming
    /\ store = IdleStore
    /\ sf = IdleSure
    /\ es = IdleEscape
    /\ hc = IdleCombiner
    /\ hu = IdleUpdater
    /\ sc = IdleScanner
    /\ cmp = IdleCompare

WeaveLiveNext ==
    \/ \E c \in Contents : NewWeaveNew(c)
    \/ NewWeaveWrite
    \/ NewWeaveCloseEnd
    \/ DropWriter
    \/ RenameBackup
    \/ RenameMain
    \/ \E base \in 1..MaxWrites, c \in Contents, name \in TagNames : DeltaNew(base, c, name)
    \/ DeltaNewFails
    \/ DeltaWrite
    \/ DeltaCloseBuild
    \/ RemoveBase
    \/ RemoveNew
    \/ DropWithoutClose

\* Weak fairness of the steps of a writer; that of DeltaCloseBuild is stated
\* with its enabling condition written out (the step leaves CloseBuildReady)
SpecWeaveLive ==
    /\ WeaveLiveInit
    /\ [][WeaveLiveNext]_vars
    /\ WF_vars(WriterStep)
    /\ []<>(~CloseBuildReady)

\* The two streams given to the combiner
CombineNames == {<<97>>, <<98>>}

\* The attributes of a file: a regular file with or without ino and ctime
\* and with or without a sha1, or a symlink
CombineFileAtts ==
    WithOptional({[kind |-> "file"], [kind |-> "file", ino |-> 1, ctime |-> 1]},
                 "sha1", {"h1"})
    \cup {[kind |-> "lnk", ino |-> 1, ctime |-> 1]}

CombineStreams == Streams(CombineNames, {[kind |-> "dir"]}, CombineFileAtts, MaxNodes)

CombineInit ==
    /\ \E L \in CombineStreams, R \in CombineStreams :
           hc = [IdleCombiner EXCEPT !.L = L, !.R = R]
    /\ mainf = NoFile
    /\ bakf = NoFile
    /\ temps = [i \in TempIds |-> NoFile]
    /\ wr = IdleWriter
    /\ faults = 0
    /\ hist = <<>>
    /\ pre = NoFile
    /\ tagged = <<>>
    /\ nc = IdleCursor
    /\ rd = IdleRead
    /\ tk = IdleTrack
    /\ ps = IdleParse
    /\ tf = IdleNaming
    /\ store = IdleStore
    /\ sf = IdleSure
    /\ es = IdleEscape
    /\ hu = IdleUpdater
    /\ sc = IdleScanner
    /\ cmp = IdleCompare

CombineNext ==
    \/ CombinerNew
    \/ CombinerVisitRoot
    \/ CombinerVisitSameDir
    \/ CombinerVisitSameFiles
    \/ CombinerVisitRightDirs
    \/ CombinerVisitLeftDirs
    \/ CombinerNone

SpecCombine == CombineInit /\ [][CombineNext]_vars

\* The source of the hash updater: no node has a sha1
HashStreams ==
    Streams(CombineNames, {[kind |-> "dir"]},
            {[kind |-> "file", size |-> 1], [kind |-> "lnk"]}, MaxHashNodes)

HashInit ==
    /\ \E s \in HashStreams :
         \E f \in [HashPaths(s) -> {"x", "y", Unreadable}] :
           hu = [IdleUpdater EXCEPT !.src = s, !.files = f]
    /\ hc = IdleCombiner
    /\ mainf = NoFile
    /\ bakf = NoFile
    /\ temps = [i \in TempIds |-> NoFile]
    /\ wr = IdleWriter
    /\ faults = 0
    /\ hist = <<>>
    /\ pre = NoFile
    /\ tagged = <<>>
    /\ nc = IdleCursor
    /\ rd = IdleRead
    /\ tk = IdleTrack
    /\ ps = IdleParse
    /\ tf = IdleNaming
    /\ store = IdleStore
    /\ sf = IdleSure
    /\ es = IdleEscape
    /\ sc = IdleScanner
    /\ cmp = IdleCompare

HashNext ==
    \/ ComputeStart
    \/ ProducerSend
    \/ ProducerSkip
    \/ ProducerEnd
    \/ \E w \in 1..NumCpu : WorkerRecv(w)
    \/ \E w \in 1..NumCpu : WorkerHashed(w)
    \/ \E w \in 1..NumCpu : WorkerFailed(w)
    \/ \E w \in 1..NumCpu : WorkerExit(w)
    \/ MainInsert
    \/ MainCommit
    \/ MergeNode
    \/ MergeEnd

SpecHash == HashInit /\ [][HashNext]_vars

\* The sources of pass one under early stops: one directory of up to
\* MaxLiveFiles nodes "a", "b", ..., each a regular file or a symlink
LiveFiles(k) ==
    {[i \in 1..k |-> File(<<96 + i>>, a[i])] :
       a \in [1..k -> {[kind |-> "file", size |-> 1], [kind |-> "lnk"]}]}

LiveStreams ==
    {<<Enter(RootName, [kind |-> "dir"])>> \o fs \o <<Sep, Leave>> :
       fs \in UNION {LiveFiles(k) : k \in 0..MaxLiveFiles}}

HashLiveInit ==
    /\ \E s \in LiveStreams :
         \E f \in [HashPaths(s) -> {"x", Unreadable}] :
           hu = [IdleUpdater EXCEPT !.src = s, !.files = f]
    /\ hc = IdleCombiner
    /\ mainf = NoFile
    /\ bakf = NoFile
    /\ temps = [i \in TempIds |-> NoFile]
    /\ wr = IdleWriter
    /\ faults = 0
    /\ hist = <<>>
    /\ pre = NoFile
    /\ tagged = <<>>
    /\ nc = IdleCursor
    /\ rd = IdleRead
    /\ tk = IdleTrack
    /\ ps = IdleParse
    /\ tf = IdleNaming
    /\ store = IdleStore
    /\ sf = IdleSure
    /\ es = IdleEscape
    /\ sc = IdleScanner
    /\ cmp = IdleCompare

\* Pass one alone, with the early stops: an Err of the source's iterator
\* and an error of the database.  Each thread is scheduled fairly.
HashLiveNext ==
    \/ ComputeStart
    \/ ProducerSend
    \/ ProducerSkip
    \/ ProducerEnd
    \/ ProducerStreamError
    \/ ProducerSendFails
    \/ \E w \in 1..NumCpu : WorkerRecv(w)
    \/ \E w \in 1..NumCpu : WorkerHashed(w)
    \/ \E w \in 1..NumCpu : WorkerFailed(w)
    \/ \E w \in 1..NumCpu : WorkerSendFails(w)
    \/ \E w \in 1..NumCpu : WorkerExit(w)
    \/ MainInsert
    \/ MainInsertFails
    \/ MainCommit
    \/ ScopePanics

ProducerStep ==
    ProducerSend \/ ProducerSkip \/ ProducerEnd \/ ProducerStreamError \/ ProducerSendFails

WorkerStep(w) ==
    WorkerRecv(w) \/ WorkerHashed(w) \/ WorkerFailed(w) \/ WorkerSendFails(w) \/ WorkerExit(w)

MainStep == ComputeStart \/ MainInsert \/ MainInsertFails \/ MainCommit \/ ScopePanics

SpecHashLive ==
    /\ HashLiveInit
    /\ [][HashLiveNext]_vars
    /\ WF_vars(ProducerStep)
    /\ \A w \in 1..NumCpu : WF_vars(WorkerStep(w))
    /\ WF_vars(MainStep)

\* The raw names of the scanned files: " ", "0" and "a"
ScanNames == <<<<32>>, <<48>>, <<97>>>>

ScanInit ==
    /\ \E e \in Entries(ScanNames, MaxScanNodes + 1) : sc = [IdleScanner EXCEPT !.fs = e]
    /\ cmp = IdleCompare
    /\ hc = IdleCombiner
    /\ hu = IdleUpdater
    /\ mainf = NoFile
    /\ bakf = NoFile
    /\ temps = [i \in TempIds |-> NoFile]
    /\ wr = IdleWriter
    /\ faults = 0
    /\ hist = <<>>
    /\ pre = NoFile
    /\ tagged = <<>>
    /\ nc = IdleCursor
    /\ rd = IdleRead
    /\ tk = IdleTrack
    /\ ps = IdleParse
    /\ tf = IdleNaming
    /\ store = IdleStore
    /\ sf = IdleSure
    /\ es = IdleEscape

ScanNext ==
    \/ ScanFs
    \/ ScanFsFails
    \/ ScanNextNormal
    \/ ScanNextSubDir
    \/ ScanNextMount
    \/ ScanNextReadError
    \/ ScanNextNone

SpecScan == ScanInit /\ [][ScanNext]_vars

\* The attributes of the compared nodes: "dir" and "lnk" the kinds, "s" a key
\* with the empty value or with "1"
CompareDirAtts == {KindKey :> <<100, 105, 114>>}

CompareFileAtts ==
    {KindKey :> <<108, 110, 107>>, (KindKey :> <<108, 110, 107>>) @@ (<<115>> :> <<>>),
     (KindKey :> <<108, 110, 107>>) @@ (<<115>> :> <<49>>)}

CompareStreams == Streams(CombineNames, CompareDirAtts, CompareFileAtts, MaxCompareNodes)

CompareInit ==
    /\ \E L \in CompareStreams, R \in CompareStreams :
           cmp = [IdleCompare EXCEPT !.L = L, !.R = R, !.T = R]
    /\ sc = IdleScanner
    /\ hc = IdleCombiner
    /\ hu = IdleUpdater
    /\ mainf = NoFile
    /\ bakf = NoFile
    /\ temps = [i \in TempIds |-> NoFile]
    /\ wr = IdleWriter
    /\ faults = 0
    /\ hist = <<>>
    /\ pre = NoFile
    /\ tagged = <<>>
    /\ nc = IdleCursor
    /\ rd = IdleRead
    /\ tk = IdleTrack
    /\ ps = IdleParse
    /\ tf = IdleNaming
    /\ store = IdleStore
    /\ sf = IdleSure
    /\ es = IdleEscape

CompareNext ==
    \/ CompareReload
    \/ CompareTrees
    \/ WalkSameDirSep
    \/ WalkSameDirDelete
    \/ WalkSameDirAdd
    \/ WalkSameDirSame
    \/ WalkSameFilesLeave
    \/ WalkSameFilesDelete
    \/ WalkSameFilesAdd
    \/ WalkSameFilesSame
    \/ WalkLeftDir
    \/ WalkRightDir

SpecCompare == CompareInit /\ [][CompareNext]_vars

\* The streams for the comparison of attributes: one name, nodes with a
\* key "s" that has one of two values or is absent, and with ctime and ino
SKey == <<115>>

AttDirAtts ==
    {(KindKey :> <<100, 105, 114>>) @@ (SKey :> <<>>),
     (KindKey :> <<100, 105, 114>>) @@ (SKey :> <<49>>)}

AttFileAtts ==
    {KindKey :> <<108, 110, 107>>,
     (KindKey :> <<108, 110, 107>>) @@ (SKey :> <<>>),
     (KindKey :> <<108, 110, 107>>) @@ (SKey :> <<49>>),
     (KindKey :> <<108, 110, 107>>) @@ (SKey :> <<>>) @@ (CtimeKey :> <<49>>)
         @@ (InoKey :> <<49>>),
     (KindKey :> <<108, 110, 107>>) @@ (SKey :> <<>>) @@ (CtimeKey :> <<50>>)
         @@ (InoKey :> <<50>>)}

AttStreams == Streams({<<97>>}, AttDirAtts, AttFileAtts, MaxAttNodes)

\* compare_trees with no key to ignore or with "s"
AttsInit ==
    /\ \E L \in AttStreams, R \in AttStreams, ig \in {{}, {SKey}} :
           cmp = [IdleCompare EXCEPT !.L = L, !.R = R, !.T = R, !.ignore = ig]
    /\ sc = IdleScanner
    /\ hc = IdleCombiner
    /\ hu = IdleUpdater
    /\ mainf = NoFile
    /\ bakf = NoFile
    /\ temps = [i \in TempIds |-> NoFile]
    /\ wr = IdleWriter
    /\ faults = 0
    /\ hist = <<>>
    /\ pre = NoFile
    /\ tagged = <<>>
    /\ nc = IdleCursor
    /\ rd = IdleRead
    /\ tk = IdleTrack
    /\ ps = IdleParse
    /\ tf = IdleNaming
    /\ store = IdleStore
    /\ sf = IdleSure
    /\ es = IdleEscape

SpecAtts == AttsInit /\ [][CompareNext]_vars

\* The names of the tracked streams: "a" and "=3d", which is written for "="
TrackNames == {<<97>>, <<61, 51, 100>>}

TrackRoots == {<<46>>, <<47>>, <<47, 100>>}

TrackStreams ==
    Streams(TrackNames, {[kind |-> "dir"]}, {[kind |-> "file"]}, MaxTrackNodes)

\* into_tracker(iter, root)
TrackInit ==
    /\ \E s \in TrackStreams, r \in TrackRoots :
           tk = [IdleTrack EXCEPT !.src = s, !.root = r, !.cur = PathNew(Unescape(r).bytes)]
    /\ cmp = IdleCompare
    /\ sc = IdleScanner
    /\ hc = IdleCombiner
    /\ hu = IdleUpdater
    /\ mainf = NoFile
    /\ bakf = NoFile
    /\ temps = [i \in TempIds |-> NoFile]
    /\ wr = IdleWriter
    /\ faults = 0
    /\ hist = <<>>
    /\ pre = NoFile
    /\ tagged = <<>>
    /\ nc = IdleCursor
    /\ rd = IdleRead
    /\ ps = IdleParse
    /\ tf = IdleNaming
    /\ store = IdleStore
    /\ sf = IdleSure
    /\ es = IdleEscape

TrackNext ==
    \/ TrackEnter
    \/ TrackFile
    \/ TrackLeave
    \/ TrackSep

SpecTrack == TrackInit /\ [][TrackNext]_vars

\* The body lines of the surefiles read: "da []", "fa []", "-", "u", a line of
\* no bytes, "x" and "d"
ReadLines ==
    {<<100, 97, 32, 91, 93>>, <<102, 97, 32, 91, 93>>, <<45>>, <<117>>, <<>>, <<120>>,
     <<100>>}

\* load_from has returned: the two fixed lines are read, any body follows
ReadInit ==
    /\ \E n \in 0..MaxReadLines :
         \E b \in [1..n -> ReadLines], c \in BOOLEAN :
           rd = [IdleRead EXCEPT !.lines = b, !.checks = c]
    /\ tk = IdleTrack
    /\ cmp = IdleCompare
    /\ sc = IdleScanner
    /\ hc = IdleCombiner
    /\ hu = IdleUpdater
    /\ mainf = NoFile
    /\ bakf = NoFile
    /\ temps = [i \in TempIds |-> NoFile]
    /\ wr = IdleWriter
    /\ faults = 0
    /\ hist = <<>>
    /\ pre = NoFile
    /\ tagged = <<>>
    /\ nc = IdleCursor
    /\ ps = IdleParse
    /\ tf = IdleNaming
    /\ store = IdleStore
    /\ sf = IdleSure
    /\ es = IdleEscape

ReadNext ==
    \/ ReadNextDone
    \/ ReadNextEof
    \/ ReadNextEmpty
    \/ ReadNextEnter
    \/ ReadNextFile
    \/ ReadNextSep
    \/ ReadNextLeave
    \/ ReadNextInvalid

SpecRead == ReadInit /\ [][ReadNext]_vars

\* Naming::new in a directory where any of the temp names may be left over
CursorInit ==
    /\ \E old \in SUBSET CursorNames :
           nc = [IdleCursor EXCEPT !.files = old, !.empty = (old = {})]
    /\ rd = IdleRead
    /\ tk = IdleTrack
    /\ cmp = IdleCompare
    /\ sc = IdleScanner
    /\ hc = IdleCombiner
    /\ hu = IdleUpdater
    /\ mainf = NoFile
    /\ bakf = NoFile
    /\ temps = [i \in TempIds |-> NoFile]
    /\ wr = IdleWriter
    /\ faults = 0
    /\ hist = <<>>
    /\ pre = NoFile
    /\ tagged = <<>>
    /\ ps = IdleParse
    /\ tf = IdleNaming
    /\ store = IdleStore
    /\ sf = IdleSure
    /\ es = IdleEscape

CursorNext ==
    \/ NamingTempFile
    \/ NamingTempFileFails
    \/ \E n \in CursorNames : NamingRelease(n)

SpecCursor == CursorInit /\ [][CursorNext]_vars

\* The bytes of the longer strings that are escaped: NUL, space, "!", "=",
\* "[", "]", "a", "~", DEL and 0xff
EscapeBytesOf == {0, 32, 33, 61, 91, 93, 97, 126, 127, 255}

\* The characters of the strings that are unescaped: "0", "4", ":", "=",
\* "A", "G", "f" and "g"
UnescapeChars == {48, 52, 58, 61, 65, 71, 102, 103}

\* A byte string to escape (each of the 256 bytes alone, and the strings
\* of a few of them), or a string to unescape
EscapeInit ==
    /\ \/ \E b \in SeqsUpTo(EscapeBytesOf, MaxEscapeLen) \cup {<<x>> : x \in 0..255} :
              es = [IdleEscape EXCEPT !.bytes = b, !.phase = "bytes"]
       \/ \E t \in SeqsUpTo(UnescapeChars, MaxEscapeLen) :
              es = [IdleEscape EXCEPT !.text = t, !.phase = "text"]
    /\ cmp = IdleCompare
    /\ sc = IdleScanner
    /\ hc = IdleCombiner
    /\ hu = IdleUpdater
    /\ mainf = NoFile
    /\ bakf = NoFile
    /\ temps = [i \in TempIds |-> NoFile]
    /\ wr = IdleWriter
    /\ faults = 0
    /\ hist = <<>>
    /\ pre = NoFile
    /\ tagged = <<>>
    /\ nc = IdleCursor
    /\ rd = IdleRead
    /\ tk = IdleTrack
    /\ ps = IdleParse
    /\ tf = IdleNaming
    /\ store = IdleStore
    /\ sf = IdleSure

EscapeNext ==
    \/ EscapeBytes
    \/ UnescapeText

SpecEscape == EscapeInit /\ [][EscapeNext]_vars

\* The names of the saved streams: "a" and "=20"
SureNames == {<<97>>, <<61, 50, 48>>}

\* The attributes of the saved nodes: kind, and "t" with the empty value or
\* with "=3d~"
SureDirAtts == {KindKey :> <<100, 105, 114>>}

SureFileAtts ==
    {KindKey :> <<108, 110, 107>>,
     (KindKey :> <<108, 110, 107>>) @@ (<<116>> :> <<>>),
     (KindKey :> <<108, 110, 107>>) @@ (<<116>> :> <<61, 51, 100, 126>>)}

SureStreams == Streams(SureNames, SureDirAtts, SureFileAtts, MaxSureNodes)

\* A surefile of an empty root directory
SmallFile == SaveTo(<<Enter(RootName, NoAtts), Sep, Leave>>)

\* Surefiles that come from elsewhere: SmallFile cut short, or with one of
\* its bytes made an "x" or a newline
OtherFiles ==
    Prefixes(SmallFile)
    \cup {[SmallFile EXCEPT ![i] = b] : i \in 1..Len(SmallFile), b \in {10, 120}}

SureInit ==
    /\ \/ \E s \in SureStreams : sf = [IdleSure EXCEPT !.src = s, !.phase = "src"]
       \/ \E b \in OtherFiles : sf = [IdleSure EXCEPT !.bytes = b, !.phase = "file"]
    /\ es = IdleEscape
    /\ cmp = IdleCompare
    /\ sc = IdleScanner
    /\ hc = IdleCombiner
    /\ hu = IdleUpdater
    /\ mainf = NoFile
    /\ bakf = NoFile
    /\ temps = [i \in TempIds |-> NoFile]
    /\ wr = IdleWriter
    /\ faults = 0
    /\ hist = <<>>
    /\ pre = NoFile
    /\ tagged = <<>>
    /\ nc = IdleCursor
    /\ rd = IdleRead
    /\ tk = IdleTrack
    /\ ps = IdleParse
    /\ tf = IdleNaming
    /\ store = IdleStore

SureNext ==
    \/ SureSave
    \/ SureLoad

SpecSure == SureInit /\ [][SureNext]_vars

StoreInit ==
    /\ store = IdleStore
    /\ sf = IdleSure
    /\ es = IdleEscape
    /\ cmp = IdleCompare
    /\ sc = IdleScanner
    /\ hc = IdleCombiner
    /\ hu = IdleUpdater
    /\ mainf = NoFile
    /\ bakf = NoFile
    /\ temps = [i \in TempIds |-> NoFile]
    /\ wr = IdleWriter
    /\ faults = 0
    /\ hist = <<>>
    /\ pre = NoFile
    /\ tagged = <<>>
    /\ nc = IdleCursor
    /\ rd = IdleRead
    /\ tk = IdleTrack
    /\ ps = IdleParse
    /\ tf = IdleNaming

StoreNext ==
    \/ \E c \in StoreContents : StoreWriteNewWeave(c)
    \/ \E c \in StoreContents : StoreWriteNewDelta(c)
    \/ \E version \in Versions : StoreLoadIter(version)

SpecStore == StoreInit /\ [][StoreNext]_vars

NamingInit ==
    /\ \E old \in SUBSET TempNames :
           tf = [IdleNaming EXCEPT
                    !.old = old,
                    !.files = [i \in TempNames |-> IF i \in old THEN OldTemp ELSE NoTemp]]
    /\ store = IdleStore
    /\ sf = IdleSure
    /\ es = IdleEscape
    /\ cmp = IdleCompare
    /\ sc = IdleScanner
    /\ hc = IdleCombiner
    /\ hu = IdleUpdater
    /\ mainf = NoFile
    /\ bakf = NoFile
    /\ temps = [i \in TempIds |-> NoFile]
    /\ wr = IdleWriter
    /\ faults = 0
    /\ hist = <<>>
    /\ pre = NoFile
    /\ tagged = <<>>
    /\ nc = IdleCursor
    /\ rd = IdleRead
    /\ tk = IdleTrack
    /\ ps = IdleParse

NamingNext ==
    \E p \in Callers :
        \/ TempFileCall(p)
        \/ TempFileOpen(p)
        \/ TempFileOpenFails(p)
        \/ HolderWrite(p)
        \/ HolderRelease(p)
        \/ HolderKeep(p)

SpecNaming == NamingInit /\ [][NamingNext]_vars

\* The parser on every bounded weave body, for every delta asked for
ParseInit ==
    /\ ps \in {ParseStart(b, d) : b \in ParseBodies, d \in ParseNums}
    /\ tf = IdleNaming
    /\ store = IdleStore
    /\ sf = IdleSure
    /\ es = IdleEscape
    /\ cmp = IdleCompare
    /\ sc = IdleScanner
    /\ hc = IdleCombiner
    /\ hu = IdleUpdater
    /\ mainf = NoFile
    /\ bakf = NoFile
    /\ temps = [i \in TempIds |-> NoFile]
    /\ wr = IdleWriter
    /\ faults = 0
    /\ hist = <<>>
    /\ pre = NoFile
    /\ tagged = <<>>
    /\ nc = IdleCursor
    /\ rd = IdleRead
    /\ tk = IdleTrack

ParseNext ==
    \/ \E t \in 0..MaxTarget : ParseToCall(t)
    \/ ParseEof
    \/ ParsePlainLine
    \/ ParseSkippedLine
    \/ ParseControlLine

SpecParse == ParseInit /\ [][ParseNext]_vars

(***************************************************************************)
(* Claims on the weave files.                                              *)
(***************************************************************************)
\* A completed write with no fault injected so far
CleanWrite == wr.kind = "idle" /\ wr.result = "ok" /\ faults = MaxFaults

\* C1: after every write of a sequence c1..cn (c1 through NewWeave, each
\* later ck through DeltaWriter on base k-1) that met no I/O fault, the
\* parser run on the main file for delta i keeps exactly the lines of ci,
\* for every i in 1..n.
C1_RoundTrip ==
    CleanWrite =>
        \A i \in 1..Len(hist) :
            Extract(mainf.data, i) = [status |-> "ok", lines |-> hist[i]]

\* C2: in every state of a write, a crash or a failed step included, a file
\* under the main name is either the file from before the operation or the
\* complete new weave, never a part of it.
C2_MainAtomic ==
    mainf.exists =>
        \/ mainf = pre
        \/ wr.complete /\ mainf.data = wr.intended

\* C3: when new, write or close of either writer returns an error, the main
\* file is what it was before the operation began.
C3_ErrorKeepsMain == wr.result = "err" => mainf = pre

(***************************************************************************)
(* Claims on the hash combiner.                                            *)
(***************************************************************************)
\* The same node but for the attribute sha1
SameButSha(a, b) ==
    /\ a.t = b.t /\ a.name = b.name
    /\ DOMAIN a.atts \ {"sha1"} = DOMAIN b.atts \ {"sha1"}
    /\ \A k \in DOMAIN a.atts \ {"sha1"} : a.atts[k] = b.atts[k]

\* C4: on two well-formed streams that start with Enter __root__ the
\* combiner returns the nodes of the right stream, in their order and each
\* once, the same but for sha1, and nothing of the left stream; it fails on
\* no node, and it returns None as soon as the last node is out.
C4_YieldsRight ==
    /\ hc.status \in {"idle", "run", "done"}
    /\ Len(hc.out) <= Len(hc.R)
    /\ \A i \in 1..Len(hc.out) : SameButSha(hc.out[i], hc.R[i])
    /\ hc.status = "done" => Len(hc.out) = Len(hc.R)
    /\ (hc.status = "run" /\ Len(hc.out) = Len(hc.R)) =>
           (hc.seen_root /\ Len(hc.state) = 0)

\* C4 witness: the combiner is done on a left stream that has a directory
\* the right stream lacks, and a sha1 of the left stream was carried over
C4_Witness ==
    /\ hc.status = "done"
    /\ hc.out # hc.R
    /\ \E j \in 2..Len(hc.L) :
           /\ hc.L[j].t = "Enter"
           /\ \A i \in 1..Len(hc.R) : hc.R[i].t = "Enter" => hc.R[i].name # hc.L[j].name

\* The files of the left stream with the name and the directory of node i
\* of the right stream
LeftFiles(i) ==
    {j \in 1..Len(hc.L) : /\ hc.L[j].t = "File"
                          /\ hc.L[j].name = hc.R[i].name
                          /\ DirAt(hc.L, j) = DirAt(hc.R, i)}

\* The condition of the carry as the claim words it: both kinds are file,
\* ino and ctime are present on both sides and equal, the new node has no
\* sha1 and the old one has
CarryCondition(l, r) ==
    /\ l.atts["kind"] = "file" /\ r.atts["kind"] = "file"
    /\ "ino" \in DOMAIN l.atts /\ "ino" \in DOMAIN r.atts
    /\ l.atts["ino"] = r.atts["ino"]
    /\ "ctime" \in DOMAIN l.atts /\ "ctime" \in DOMAIN r.atts
    /\ l.atts["ctime"] = r.atts["ctime"]
    /\ "sha1" \notin DOMAIN r.atts
    /\ "sha1" \in DOMAIN l.atts

\* C5: the File node i of the right stream comes out with a sha1 other
\* than its own iff the left stream has a File of that name in that
\* directory and the condition of the carry holds of the two; the sha1 is
\* then the one of the left node, and in every other case the node comes
\* out as it went in.
C5_CarryIff ==
    hc.status = "done" =>
        \A i \in 1..Len(hc.R) :
            hc.R[i].t = "File" =>
                IF \E j \in LeftFiles(i) : CarryCondition(hc.L[j], hc.R[i])
                THEN \E j \in LeftFiles(i) :
                         hc.out[i] = [hc.R[i] EXCEPT
                                          !.atts = Insert(@, "sha1", hc.L[j].atts["sha1"])]
                ELSE hc.out[i] = hc.R[i]


(***************************************************************************)
(* Claims on the hash updater.                                             *)
(***************************************************************************)
\* Node i of the source as the two passes have to write it
Hashed(i) ==
    IF NeedsHash(hu.src[i]) /\ hu.files[TrackerPath(hu.src, i)] # Unreadable
    THEN [hu.src[i] EXCEPT
              !.atts = Insert(@, "sha1",
                              HexLower(Sha1Of(hu.files[TrackerPath(hu.src, i)])))]
    ELSE hu.src[i]

\* C6: from a source without any sha1, compute_parallel and then merge
\* write the nodes of the source, each regular file whose file could be
\* read with the lowercase hex of the hash of the content at its own path
\* as sha1, every other node as it is; neither pass panics.
C6_HashRoundTrip ==
    /\ hu.pass # "panic"
    /\ Len(hu.out) <= Len(hu.src)
    /\ \A i \in 1..Len(hu.out) : hu.out[i] = Hashed(i)
    /\ hu.pass = "done" => Len(hu.out) = Len(hu.src)

\* C6 witness: the two passes are done on a source where a file that could
\* not be read comes before a file that has got its sha1
C6_Witness ==
    /\ hu.pass = "done"
    /\ \E i, j \in 1..Len(hu.src) :
           /\ i < j
           /\ NeedsHash(hu.src[i]) /\ "sha1" \notin DOMAIN hu.out[i].atts
           /\ NeedsHash(hu.src[j]) /\ "sha1" \in DOMAIN hu.out[j].atts

(***************************************************************************)
(* Claims on the scanner.                                                  *)
(***************************************************************************)
\* What a node does to the sections of the directories that are open: a
\* directory is in its "dirs" section up to its Sep and in its "files"
\* section from there to its Leave
Section(st, n) ==
    IF st = <<"start">>
    THEN IF n.t = "Enter" /\ n.name = RootName THEN <<"dirs">> ELSE <<"bad">>
    ELSE IF st \in {<<"bad">>, <<"end">>} THEN <<"bad">>
    ELSE IF n.t = "Enter" /\ st[Len(st)] = "dirs" THEN Append(st, "dirs")
    ELSE IF n.t = "Sep" /\ st[Len(st)] = "dirs" THEN Append(Front(st), "files")
    ELSE IF n.t = "File" /\ st[Len(st)] = "files" THEN st
    ELSE IF n.t = "Leave" /\ st[Len(st)] = "files"
    THEN IF Len(st) = 1 THEN <<"end">> ELSE Front(st)
    ELSE <<"bad">>

\* The sections open after a stream: <<"start">> before the first node,
\* <<"end">> after the Leave of the root, <<"bad">> when a node is out of place
RECURSIVE Sections(_)
Sections(s) ==
    IF Len(s) = 0 THEN <<"start">> ELSE Section(Sections(Front(s)), s[Len(s)])

\* C7: the nodes the ScanIterator returns are at any time the beginning of
\* a well-formed stream (Enter __root__ first, Enter and Leave nested, one
\* Sep in each directory after its child directories and before its
\* files); the stream is whole when None is returned, unless reading the
\* root failed, and nothing is left to return once the root is left.
C7_WellFormed ==
    /\ Sections(sc.out) # <<"bad">>
    /\ sc.status = "done" => Sections(sc.out) = IF Len(sc.out) = 0 THEN <<"start">> ELSE <<"end">>
    /\ (sc.status = "done" /\ sc.errs = 0) => Len(sc.out) > 0
    /\ Sections(sc.out) = <<"end">> => Len(sc.todo) = 0

\* C7 witness: a scan without an error has ended on a tree with a file in
\* a directory below the root, and a file in the root
C7_Witness ==
    /\ sc.status = "done" /\ sc.errs = 0
    /\ \E i, j \in 1..Len(sc.out) :
           /\ sc.out[i].t = "File" /\ Len(DirAt(sc.out, i)) = 2
           /\ sc.out[j].t = "File" /\ Len(DirAt(sc.out, j)) = 1

\* C8: in the stream of the scanner the names of the child directories of
\* a directory, and the names of its files, are strictly ascending as the
\* escaped names that are in the stream.
C8_EscapedAscending ==
    \A i, j \in 1..Len(sc.out) :
        (/\ i < j
         /\ sc.out[i].t \in {"Enter", "File"}
         /\ sc.out[i].t = sc.out[j].t
         /\ DirAt(sc.out, i) = DirAt(sc.out, j))
        => StrLess(sc.out[i].name, sc.out[j].name)

(***************************************************************************)
(* Claims on the comparator.                                               *)
(***************************************************************************)
\* C9: when the left stream is the right one, as it is or written by
\* save_to and read by load_from, compare_trees reports no Add, Delete or
\* Modify, neither fails nor panics, and load_from gives the stream back.
C9_SameTreeSilent ==
    cmp.L = cmp.T =>
        /\ cmp.events = <<>>
        /\ cmp.status \in {"idle", "run", "ok"}
        /\ cmp.R = cmp.T
        /\ ~NameOfNameless(cmp)

\* C9 witness: compare_trees has returned Ok on a stream, with a file in a
\* directory below the root, and what load_from has read of it
C9_Witness ==
    /\ cmp.status = "ok" /\ cmp.reloaded /\ cmp.L = cmp.T
    /\ \E i \in 1..Len(cmp.L) : cmp.L[i].t = "File" /\ Len(DirAt(cmp.L, i)) = 2

\* The named nodes of a stream below its root
Named(s) == {i \in 2..Len(s) : HasName(s[i])}

\* The full path of node i: the names of the directories below the root
\* that it is in and its own name
PathOf(s, i) == Append(Tail(DirAt(s, i)), s[i].name)

Paths(s) == {PathOf(s, i) : i \in Named(s)}

\* How often an Add or a Delete of a path is reported
Reports(action, p) ==
    Cardinality({e \in 1..Len(cmp.events) :
                     cmp.events[e].action = action /\ cmp.events[e].path = p})

\* C10 as it is stated: an Add for each path of R that L has not, a
\* Delete for each path of L that R has not, each once, none for the others.
C10_OnePerPath ==
    cmp.status = "ok" =>
        \A p \in Paths(cmp.L) \cup Paths(cmp.R) :
            /\ Reports("Add", p) = IF p \notin Paths(cmp.L) THEN 1 ELSE 0
            /\ Reports("Delete", p) = IF p \notin Paths(cmp.R) THEN 1 ELSE 0

\* The nodes of a stream: full path and Enter or File
Side(s) == {<<PathOf(s, i), s[i].t>> : i \in Named(s)}

\* The paths of the directories of a stream, the root the empty one
DirPaths(s) == {<<>>} \cup {k[1] : k \in {x \in Side(s) : x[2] = "Enter"}}

\* The nodes of a only, in a directory that a and b both have
Top1(a, b) ==
    {k \in Side(a) \ Side(b) : Front(k[1]) \in DirPaths(a) \cap DirPaths(b)}

\* "dir"
DirKind == <<100, 105, 114>>

\* How often an Add or a Delete of a node is reported, with its kind
ReportsOf(action, k) ==
    Cardinality({e \in 1..Len(cmp.events) :
                     /\ cmp.events[e].action = action
                     /\ cmp.events[e].path = k[1]
                     /\ (cmp.events[e].kind = DirKind) = (k[2] = "Enter")})

AddsAndDeletes == {e \in 1..Len(cmp.events) : cmp.events[e].action \in {"Add", "Delete"}}

\* C10: compare_trees reports one Add for each node (a path, as a
\* directory or as a file) that only R has in a directory that both have,
\* one Delete for each node that only L has in such a directory, and no
\* other Add or Delete: none for what is below an added or deleted
\* directory, none for a node that both have.
C10_OnePerTopNode ==
    /\ ~NameOfNameless(cmp)
    /\ cmp.status \in {"idle", "run", "ok"}
    /\ cmp.status = "ok" =>
        /\ \A k \in Side(cmp.L) \cup Side(cmp.R) :
               /\ ReportsOf("Add", k) = IF k \in Top1(cmp.R, cmp.L) THEN 1 ELSE 0
               /\ ReportsOf("Delete", k) = IF k \in Top1(cmp.L, cmp.R) THEN 1 ELSE 0
        /\ Cardinality(AddsAndDeletes)
               = Cardinality(Top1(cmp.R, cmp.L)) + Cardinality(Top1(cmp.L, cmp.R))

\* C10 witness: compare_trees has returned Ok where R has a directory
\* with a node in it that L has not, and L a node that R has not
C10_Witness ==
    /\ cmp.status = "ok"
    /\ \E k \in Side(cmp.R) \ Side(cmp.L) : k \notin Top1(cmp.R, cmp.L)
    /\ Top1(cmp.L, cmp.R) # {}
    /\ \E e \in 1..Len(cmp.events) : cmp.events[e].action = "Add"

(***************************************************************************)
(* Claims on the deltas of a weave.                                        *)
(***************************************************************************)
\* The delta numbers of the control lines `^A{I,D,E} n` of a weave file
CtlNumbers(lines) ==
    {NumVal(SubSeq(lines[i], 4, Len(lines[i]))) :
         i \in {j \in 1..Len(lines) :
                    /\ Len(lines[j]) >= 4 /\ lines[j][1] = SOH
                    /\ lines[j][2] \in {"I", "D", "E"}}}

\* The delta numbers of the header of a weave file
HeaderNumbers(lines) ==
    IF Len(lines) = 0 THEN {}
    ELSE {HeaderDecode(lines[1]).deltas[i].number :
              i \in 1..Len(HeaderDecode(lines[1]).deltas)}

\* C11: the number a DeltaWriter gives to its delta is above every delta
\* number that the control lines and the header of the main file hold when
\* the writer is made.
C11_NumbersIncrease ==
    wr.kind = "delta" =>
        \A n \in CtlNumbers(pre.data) \cup HeaderNumbers(pre.data) : wr.nd > n

\* C12: no two deltas committed to the weave have the same `name`.
C12_NamesUnique ==
    \A i, j \in 1..Len(tagged) : i # j => tagged[i] # tagged[j]

(***************************************************************************)
(* Claims on the escape codec.                                             *)
(***************************************************************************)
\* C14: unescape of the escaped text of a byte string is Ok and gives the
\* byte string back.
C14_EscapeRoundTrip ==
    (es.escaped /\ es.phase = "done") => (es.out.ok /\ es.out.bytes = es.bytes)

\* C14 witness: a string of three bytes with 0xff, "=" and "a" has gone
\* through escaped and unescape
C14_Witness ==
    /\ es.escaped /\ es.phase = "done"
    /\ es.bytes = <<255, 61, 97>>
    /\ Len(es.text) = 7

\* The bytes that the escaped text may hold as they are: 0x21..0x7e
\* without "=", "[" and "]"
Plain(b) == 33 <= b /\ b <= 126 /\ b \notin {61, 91, 93}

\* C15: escaped passes a byte through iff it is in 0x21..0x7e and not "=",
\* "[" or "]", makes `=xx` with two lowercase hex digits of any other
\* byte, and so its text holds neither space, "[", "]" nor a byte that is
\* not printable.
C15_EscapedAlphabet ==
    es.escaped =>
        /\ \A i \in 1..Len(es.text) : Plain(es.text[i]) \/ es.text[i] = 61
        /\ Len(es.bytes) = 1 =>
               es.text = IF Plain(es.bytes[1]) THEN es.bytes
                         ELSE <<61, HexDigit(es.bytes[1] \div 16), HexDigit(es.bytes[1] % 16)>>

\* 0-9, a-f and A-F
IsHex(c) == (48 <= c /\ c <= 57) \/ (97 <= c /\ c <= 102) \/ (65 <= c /\ c <= 70)

\* The first fault of the escapes of a text: the first character after an
\* `=` that is no hex digit, or the end of the text within an escape
RECURSIVE FirstFault(_)
FirstFault(t) ==
    IF Len(t) = 0 THEN [err |-> "none", ch |-> 0]
    ELSE IF Head(t) # 61 THEN FirstFault(Tail(t))
    ELSE IF Len(t) >= 2 /\ ~IsHex(t[2]) THEN [err |-> "InvalidHexCharacter", ch |-> t[2]]
    ELSE IF Len(t) >= 3 /\ ~IsHex(t[3]) THEN [err |-> "InvalidHexCharacter", ch |-> t[3]]
    ELSE IF Len(t) < 3 THEN [err |-> "InvalidHexLength", ch |-> 0]
    ELSE FirstFault(SubSeq(t, 4, Len(t)))

\* C16: unescape is Ok only when every `=` of the text is followed by two
\* hex digits; it fails with InvalidHexCharacter(c) on a character c
\* after an `=` that is no hex digit and with InvalidHexLength on a text
\* that ends within an escape.
C16_MalformedFails ==
    es.phase = "done" =>
        /\ es.out.ok = (FirstFault(es.text).err = "none")
        /\ es.out.err = FirstFault(es.text).err
        /\ es.out.ch = FirstFault(es.text).ch

(***************************************************************************)
(* Claims on the surefiles.                                                *)
(***************************************************************************)
\* C13: load_from of what save_to has written of a well-formed stream,
\* whose names, keys and values are escaped tokens, gives the nodes of the
\* stream, the same names and attributes in the same order, and ends.
C13_SaveLoadRoundTrip ==
    (sf.saved /\ sf.phase = "done") => sf.res = Loaded("ok", sf.src)

\* C13 witness: a stream is back from its surefile that has a directory
\* below the root and a file with an attribute of the empty value
C13_Witness ==
    /\ sf.saved /\ sf.phase = "done"
    /\ \E i, j \in 2..Len(sf.res.nodes) :
           /\ sf.res.nodes[i].t = "Enter"
           /\ sf.res.nodes[j].t = "File"
           /\ \E k \in DOMAIN sf.res.nodes[j].atts : sf.res.nodes[j].atts[k] = <<>>

\* The two header lines are there: "asure-2.0", a newline, "-----", and a
\* newline or the end of the file
GoodHeader(bytes) ==
    /\ Len(bytes) >= 15
    /\ SubSeq(bytes, 1, 15) = Magic \o <<10>> \o Dashes
    /\ Len(bytes) >= 16 => bytes[16] = 10

\* C17: load_from fails with UnexpectedLine and gives no node when the
\* first line is not "asure-2.0" or the second not "-----", a line that
\* is not there because the file ends early included.
C17_HeaderUnexpectedLine ==
    (sf.phase = "done" /\ ~GoodHeader(sf.bytes)) =>
        sf.res = Loaded("UnexpectedLine", <<>>)

(***************************************************************************)
(* Claims on the WeaveStore.                                               *)
(***************************************************************************)
\* What load_iter gives for a content: Ok, the nodes of its lines after the
\* two fixed ones, and then None
Yields(c) == [status |-> "ok", items |-> IterItems(SubSeq(c, 3, Len(c))), end |-> "eof"]

Loaded2 == store.res.status # "none" /\ Len(store.written) >= 2

\* C18: on a weave that holds the deltas 1..m, m >= 2, load_iter gives the
\* content written for delta m for Latest, that of delta m-1 for Prior, that
\* of delta k for Tagged("k"), and the integer parse error for a tag that is
\* not a number.
C18_VersionSelection ==
    Loaded2 =>
        /\ store.version.kind = "Latest"
               => store.res = Yields(store.written[Len(store.written)])
        /\ store.version.kind = "Prior"
               => store.res = Yields(store.written[Len(store.written) - 1])
        /\ \A k \in 1..Len(store.written) :
               store.version = [kind |-> "Tagged", text |-> FmtNum(k)]
                   => store.res = Yields(store.written[k])
        /\ (store.version.kind = "Tagged" /\ ~ParsesAsNum(store.version.text))
               => store.res.status = "ParseIntError"

(***************************************************************************)
(* Claims on temp_file.                                                    *)
(***************************************************************************)
Holds(p) == tf.callers[p].pc = "held"

\* C20: a successful temp_file returns a name that nothing had at the moment
\* of the open and the file it created; two callers never hold the same
\* name, and a file that was there is neither taken nor truncated.
C20_TempFileExclusive ==
    /\ \A p \in Callers : Holds(p) =>
           /\ tf.callers[p].fresh
           /\ tf.files[tf.callers[p].path].exists
           /\ tf.files[tf.callers[p].path].owner = p
    /\ \A p, q \in Callers :
           (Holds(p) /\ Holds(q) /\ p # q) => tf.callers[p].path # tf.callers[q].path
    /\ \A i \in tf.old : tf.files[i] = OldTemp

\* Two callers hold a file each, both after AlreadyExists on a file that
\* was there before
C20_Witness ==
    /\ Holds(1) /\ Holds(2)
    /\ tf.files[0] = OldTemp
    /\ tf.callers[1].path = 2 /\ tf.callers[2].path = 1

(***************************************************************************)
(* Claims on the temp files of the writers.                                *)
(***************************************************************************)
\* C19: every temp file a writer creates is removed or renamed to the main
\* name in the end: under each temp name, a file that is there is later gone.
C19_TempsRemoved == \A i \in TempIds : [](temps[i].exists => <>(~temps[i].exists))

(***************************************************************************)
(* Claims on the parser.                                                   *)
(***************************************************************************)
\* The step actions and the loop of ParseLoop are the same parser: when
\* parse_to is over, the sink has what one parse_to(0) gives it
ParseStepsAgree ==
    ps.phase = "end" => ParserResult(ps.p) = Extract(ps.file, ps.p.delta)

\* The body lines read so far
Seen == SubSeq(ps.file, 2, Len(ps.file) - Len(ps.p.src))

\* A line that is exactly `^AI n`, `^AD n` or `^AE n`, n decimal
ExactCtl(line) ==
    /\ Len(line) >= 4
    /\ line[1] = SOH
    /\ line[2] \in {"I", "D", "E"}
    /\ line[3] = " "
    /\ ParsesAsNum(SubSeq(line, 4, Len(line)))

\* A line that begins with ^A and is none of the three
ReservedCtl(line) == ~Textual(line) /\ ~ExactCtl(line)

\* C21: a body line that begins with ^A and is not exactly `^AI n`, `^AD n`
\* or `^AE n` is ignored: the sink gets no call for it, parse_to neither
\* fails nor panics, and the delta stack and `keeping` stay as they were.
C21_ReservedIgnored ==
    (ps.read /\ ReservedCtl(ps.line)) =>
        /\ ps.ev = <<>>
        /\ ps.p.status = "ok"
        /\ ps.p.stack = ps.was.stack
        /\ ps.p.keeping = ps.was.keeping
        /\ ps.p.out = ps.was.out

\* The last control line numbered n among the lines read: "I", "D", or "E"
\* (also when there is none)
RECURSIVE LastCtl(_, _)
LastCtl(seen, n) ==
    IF Len(seen) = 0 THEN "E"
    ELSE LET l == seen[Len(seen)]
         IN IF ExactCtl(l) /\ NumVal(SubSeq(l, 4, Len(l))) = n THEN l[2]
            ELSE LastCtl(SubSeq(seen, 1, Len(seen) - 1), n)

\* The mode of region n, open after the lines read, for target delta d
RegionMode(seen, n, d) ==
    IF LastCtl(seen, n) = "I" THEN (IF d >= n THEN "Keep" ELSE "Skip")
    ELSE IF LastCtl(seen, n) = "D" THEN (IF d >= n THEN "Skip" ELSE "Next")
    ELSE "Closed"

\* The extraction rule: the open region with the largest number among those
\* whose mode is Keep or Skip has mode Keep
KeepRule(seen, d) ==
    \E n \in ParseNums :
        /\ RegionMode(seen, n, d) = "Keep"
        /\ \A m \in ParseNums :
               RegionMode(seen, m, d) \in {"Keep", "Skip"} => m <= n

\* C22: every plain line goes to the sink with keep = TRUE exactly when,
\* among the open regions, the one with the largest delta number whose mode
\* is not Next has mode Keep; `keeping` is that value after every line.
C22_KeepRule ==
    ps.p.status = "ok" =>
        /\ ps.p.keeping = KeepRule(Seen, ps.p.delta)
        /\ \A i \in 1..Len(ps.ev) :
               ps.ev[i].kind = "plain" => ps.ev[i].keep = KeepRule(Seen, ps.p.delta)

\* A plain line is kept inside two open regions, the newer one a delete
\* that the target delta does not have yet
C22_Witness ==
    /\ ps.p.status = "ok"
    /\ ps.ev = <<PlainEv(PlainText, TRUE)>>
    /\ Len(ps.p.stack) = 2
    /\ ps.p.stack[1].mode = "Next"

StrictlyDescending(stack) ==
    \A i, j \in 1..Len(stack) : i < j => stack[i].delta > stack[j].delta

Without(stack, n) == SelectSeq(stack, LAMBDA e : e.delta # n)

\* C23: the delta stack is always sorted strictly descending by delta
\* number, so without duplicates; an `I n` or `D n` that the parser takes
\* adds exactly one entry, for n, and an `E n` removes exactly the entry
\* for n; the other entries and their order stay.
C23_StackSorted ==
    /\ StrictlyDescending(ps.p.stack)
    /\ \A i \in 1..Len(ps.ev) :
           (ps.p.status = "ok" /\ ps.ev[i].kind \in {"I", "D"}) =>
               /\ Len(ps.p.stack) = Len(ps.was.stack) + 1
               /\ HasDelta(ps.p.stack, ps.ev[i].n)
               /\ Without(ps.p.stack, ps.ev[i].n) = ps.was.stack
    /\ \A i \in 1..Len(ps.ev) :
           (ps.p.status = "ok" /\ ps.ev[i].kind = "E") =>
               /\ Len(ps.p.stack) = Len(ps.was.stack) - 1
               /\ ps.p.stack = Without(ps.was.stack, ps.ev[i].n)

\* An older delta has been pushed under a newer one, then the newer one
\* is ended and the older one stays
C23_Witness ==
    /\ ps.p.status = "ok"
    /\ ps.ev = <<CtlEv("E", 2)>>
    /\ Len(ps.was.stack) = 2
    /\ Seen[1] = CtlLine("I", 2)
    /\ Seen[2] = CtlLine("D", 1)
    /\ ps.p.stack = <<[delta |-> 1, mode |-> "Skip"]>>

(***************************************************************************)
(* Claims on the insertion of a delta.                                     *)
(***************************************************************************)
\* The last write_new went through DeltaWriter and replaced the weave file
DeltaWritten == store.nd > 0 /\ store.prev.exists /\ store.main.exists

IsHeaderLine(line) == Len(line) >= 2 /\ line[1] = SOH /\ line[2] = "t"

\* The lines of a weave file after its header line
WeaveBody(lines) ==
    IF Len(lines) > 0 /\ IsHeaderLine(lines[1]) THEN Tail(lines) ELSE lines

CtlNum(line) == NumVal(SubSeq(line, 4, Len(line)))

\* A body without the control lines numbered n and without the plain lines
\* between `^AI n` and `^AE n`; inside tells whether such a region is open
RECURSIVE StripFrom(_, _, _)
StripFrom(body, n, inside) ==
    IF Len(body) = 0 THEN <<>>
    ELSE LET l == Head(body)
         IN IF ExactCtl(l) /\ CtlNum(l) = n
            THEN StripFrom(Tail(body), n, l[2] = "I")
            ELSE IF Textual(l) /\ inside THEN StripFrom(Tail(body), n, inside)
            ELSE <<l>> \o StripFrom(Tail(body), n, inside)

StripDelta(body, n) == StripFrom(body, n, FALSE)

\* C24: the insertion of a delta keeps the weave that was there: the new
\* body without the control lines of the new delta and without the plain
\* lines of its insert regions is the old body, and every delta committed
\* before gives the same lines after the insertion as before it.
C24_InsertKeepsOld ==
    DeltaWritten =>
        /\ StripDelta(WeaveBody(store.main.data), store.nd)
               = WeaveBody(store.prev.data)
        /\ \A i \in 1..(store.nd - 1) :
               Extract(store.main.data, i) = Extract(store.prev.data, i)

\* The first half of C24 alone: the control lines and the plain lines of
\* the old body are all in the new one, in their order
BodyKept ==
    DeltaWritten =>
        StripDelta(WeaveBody(store.main.data), store.nd) = WeaveBody(store.prev.data)

\* The added lines of the diff output that diff_re does not match
NoAddedLineMatches ==
    \A k \in 1..Len(store.diff) :
        store.diff[k][1] = ">" => ~DiffRe(store.diff[k]).matched

\* The numbers of the regions open after the lines of body, in the order
\* they were opened; <<0>> first once a control line did not match
RECURSIVE OpenAfter(_, _)
OpenAfter(body, open) ==
    IF Len(body) = 0 THEN open
    ELSE LET l == Head(body)
             has == \E k \in 1..Len(open) : open[k] = CtlNum(l)
         IN IF ~ExactCtl(l) THEN OpenAfter(Tail(body), open)
            ELSE IF l[2] = "E"
            THEN IF has
                 THEN OpenAfter(Tail(body), SelectSeq(open, LAMBDA x : x # CtlNum(l)))
                 ELSE <<0>>
            ELSE IF has THEN <<0>>
            ELSE OpenAfter(Tail(body), Append(open, CtlNum(l)))

\* Every `I n` and `D n` is followed by one `E n`, no region n is opened
\* while one is open, and no region is open at the end
MatchedCtl(body) == OpenAfter(body, <<>>) = <<>>

\* C25: the weave file that NewWeave and any number of DeltaWriter commits
\* leave has matched control lines, and the parser run on it for any delta
\* reaches neither the panic of push nor the unreachable branch of pop.
C25_MatchedControls ==
    store.main.exists =>
        /\ MatchedCtl(WeaveBody(store.main.data))
        /\ \A d \in 0..(Len(store.written) + 1) :
               Extract(store.main.data, d).status # "panic"

\* The texts of the `> ` lines of a diff output, in order
RECURSIVE AddedLines(_)
AddedLines(diff) ==
    IF Len(diff) = 0 THEN <<>>
    ELSE IF Len(Head(diff)) >= 2 /\ Head(diff)[1] = ">"
    THEN <<SubSeq(Head(diff), 3, Len(Head(diff)))>> \o AddedLines(Tail(diff))
    ELSE AddedLines(Tail(diff))

\* The plain lines of a body between `^AI n` and `^AE n`, in order
RECURSIVE InsertedFrom(_, _, _)
InsertedFrom(body, n, inside) ==
    IF Len(body) = 0 THEN <<>>
    ELSE LET l == Head(body)
         IN IF ExactCtl(l) /\ CtlNum(l) = n
            THEN InsertedFrom(Tail(body), n, l[2] = "I")
            ELSE IF Textual(l) /\ inside
            THEN <<l>> \o InsertedFrom(Tail(body), n, inside)
            ELSE InsertedFrom(Tail(body), n, inside)

\* C26: every `> ` line of the diff output is in the new weave as a plain
\* line inserted by the new delta, its text unchanged and whatever the
\* text; the inserted lines are those and no others, in the order of diff.
C26_AddedVerbatim ==
    DeltaWritten =>
        InsertedFrom(WeaveBody(store.main.data), store.nd, FALSE)
            = AddedLines(store.diff)

\* C26 for the diff outputs without such a text: holds
AddedVerbatimUnlessMatched == NoAddedLineMatches => C26_AddedVerbatim

\* The first half of C25 alone: the control lines of the file are matched
ControlsMatched == store.main.exists => MatchedCtl(WeaveBody(store.main.data))

\* C27: after a delta insertion the first line of the weave file is the
\* ^At header, with the deltas recorded before, unchanged and in order,
\* and one more; the parser on the new file reads that line as the header
\* and keeps the lines of the new delta.
C27_HeaderExtended ==
    DeltaWritten =>
        LET h == HeaderDecode(store.main.data[1])
            old == HeaderDecode(store.prev.data[1])
        IN /\ IsHeaderLine(store.main.data[1])
           /\ h.ok
           /\ Len(h.deltas) = Len(old.deltas) + 1
           /\ SubSeq(h.deltas, 1, Len(old.deltas)) = old.deltas
           /\ h.deltas[Len(h.deltas)].number = store.nd
           /\ Extract(store.main.data, store.nd)
                  = [status |-> "ok", lines |-> store.written[Len(store.written)]]

(***************************************************************************)
(* Claims on the threads of compute_parallel.                              *)
(***************************************************************************)
\* compute_parallel is over: it returned Ok (pass "two") or Err, or it
\* panicked, and no thread of the scope is left
Returned ==
    /\ hu.pass \in {"two", "err", "panic"}
    /\ hu.prod # "run"
    /\ hu.main # "run"
    /\ \A w \in 1..NumCpu : hu.workers[w].st \in {"exit", "dead"}

\* C28: under fair scheduling of the threads compute_parallel comes to an
\* end on every finite source: the producer ends and the work channel is
\* closed, every worker ends, the closure of the scope ends, and no thread
\* waits for ever; also when the producer panics on an Err of the source
\* or a send fails after an error of the database.
C28_Terminates == <>Returned

\* The closure of the scope panicked on the database while the producer
\* had nodes left; the workers and then the producer died on their sends,
\* and nothing is left running
C28_Witness ==
    /\ Returned
    /\ hu.pass = "panic"
    /\ hu.prod = "panic"
    /\ hu.pos <= Len(hu.src)
    /\ \A w \in 1..NumCpu : hu.workers[w].st = "dead"

\* The id the producer gives to node i of the source: the number of the
\* nodes before it that need a hash
IdOf(i) == Cardinality({k \in 1..(i - 1) : NeedsHash(hu.src[k])})

NeedHash == {i \in 1..Len(hu.src) : NeedsHash(hu.src[i])}

Readable(i) == hu.files[TrackerPath(hu.src, i)] # Unreadable

\* The rows of the table as the source and the files alone give them
ExpectedDb ==
    {[id |-> IdOf(i), hash |-> Sha1Of(hu.files[TrackerPath(hu.src, i)])] :
       i \in {k \in NeedHash : Readable(k)}}

\* C29: what merge writes is a function of the source and of the files
\* alone: whatever the interleaving of the producer, the workers and the
\* insertions was, the table that pass 1 leaves is the same set of rows and
\* the stream of merge is the same sequence of nodes.
C29_SameForEveryInterleaving ==
    /\ hu.pass \in {"two", "done"} => hu.db = ExpectedDb
    /\ hu.pass = "done" => hu.out = [i \in 1..Len(hu.src) |-> Hashed(i)]

\* merge is done and the hash of the second file was inserted before the
\* hash of the first
C29_Witness ==
    /\ hu.pass = "done"
    /\ hu.order = <<1, 0>>
    /\ Len(hu.out) = Len(hu.src)

\* The ids of the work that exists: in the work channel, with a worker,
\* in the result channel, in the table
IdsInFlight ==
    {hu.work[k].id : k \in 1..Len(hu.work)}
        \cup {hu.workers[w].id : w \in {v \in DOMAIN hu.workers : hu.workers[v].st = "busy"}}
        \cup {hu.res[k].id : k \in 1..Len(hu.res)}
        \cup {r.id : r \in hu.db}

NumInFlight ==
    Len(hu.work)
        + Cardinality({v \in DOMAIN hu.workers : hu.workers[v].st = "busy"})
        + Len(hu.res) + Cardinality(hu.db)

ExpectedWork == {[id |-> IdOf(i), path |-> TrackerPath(hu.src, i)] : i \in NeedHash}

\* C30: the producer numbers the nodes that need a hash 0, 1, ... in the
\* order of the stream, the others take no id; a work is with one worker
\* at most and no id is in two places; the table has at most one row for
\* an id, after pass 1 exactly one for each file that could be hashed, and
\* the insert never fails on a duplicate.
C30_OneRowPerId ==
    /\ hu.pass # "panic"
    /\ hu.count = IdOf(hu.pos)
    /\ \A k \in 1..Len(hu.work) : hu.work[k] \in ExpectedWork
    /\ \A k \in 1..Len(hu.work) : hu.work[k].id = hu.count - Len(hu.work) + k - 1
    /\ \A w \in DOMAIN hu.workers :
           hu.workers[w].st = "busy" =>
               [id |-> hu.workers[w].id, path |-> hu.workers[w].path] \in ExpectedWork
    /\ IdsInFlight \subseteq 0..(hu.count - 1)
    /\ Cardinality(IdsInFlight) = NumInFlight
    /\ \A r1, r2 \in hu.db : r1.id = r2.id => r1 = r2
    /\ hu.pass \in {"two", "done"} =>
           {r.id : r \in hu.db} = {IdOf(i) : i \in {k \in NeedHash : Readable(k)}}

\* Pass 1 is over on a source where nodes that need no hash stand between
\* two files: the files have the ids 0 and 1, and both have a row
C30_Witness ==
    /\ hu.pass = "two"
    /\ {r.id : r \in hu.db} = {0, 1}
    /\ \E i, k \in NeedHash : \E j \in (k + 1)..(i - 1) : ~NeedsHash(hu.src[j])

(***************************************************************************)
(* Claims on merge.                                                        *)
(***************************************************************************)
\* The rows of the table with id c
RowsOf(c) == {r \in hu.db : r.id = c}

\* Node i of the source as the merge rule writes it from the table
Merged(i) ==
    IF NeedsHash(hu.src[i]) /\ RowsOf(IdOf(i)) # {}
    THEN WithSha1(hu.src[i], (CHOOSE r \in RowsOf(IdOf(i)) : TRUE).hash)
    ELSE hu.src[i]

\* C31: merge writes the nodes of the source in their order; the node that
\* needs a hash and is met at counter value c gets as sha1 the lowercase
\* hex of the hash of the row with id c when the table has one and is
\* written as it is when it has none, later rows staying with their own
\* nodes; a node that needs no hash is written as it is.
C31_MergeRule ==
    hu.pass \in {"two", "done"} =>
        /\ Len(hu.out) = hu.mpos - 1
        /\ hu.mcount = IdOf(hu.mpos)
        /\ \A i \in 1..Len(hu.out) : hu.out[i] = Merged(i)
        /\ hu.pass = "done" => Len(hu.out) = Len(hu.src)

\* merge is done on a table that has a row for id 1 and none for id 0: the
\* second file has the sha1 of that row, the first has none
C31_Witness ==
    /\ hu.pass = "done"
    /\ {r.id : r \in hu.db} = {1}
    /\ \E i \in NeedHash :
           /\ IdOf(i) = 1
           /\ hu.out[i] = WithSha1(hu.src[i], (CHOOSE r \in hu.db : TRUE).hash)
    /\ \E i \in NeedHash : IdOf(i) = 0 /\ hu.out[i] = hu.src[i]

\* C32: while merge runs, the id of the next row not yet read is at least
\* the counter of the needs-hash nodes seen; the panic `Out of sequence
\* hash` is not reached, and when merge ends no row is left unread.
C32_RowsInSequence ==
    /\ hu.pass # "panic"
    /\ (hu.pass = "two" /\ Len(hu.rows) > 0) => Head(hu.rows).id >= hu.mcount
    /\ hu.pass = "done" => Len(hu.rows) = 0

\* merge has met a row whose id is ahead of the counter, has passed the
\* node of the missing id and has read every row
C32_Witness ==
    /\ hu.pass = "done"
    /\ Len(hu.rows) = 0
    /\ hu.mcount = 2
    /\ hu.order = <<1>>

\* C33: a file that cannot be opened or read gets no row, the other files
\* are hashed all the same, compute_parallel neither fails nor panics, and
\* after merge the needs-hash nodes without sha1 are exactly those whose
\* file could not be read.
C33_FailedFilesOnly ==
    /\ hu.pass \notin {"err", "panic"}
    /\ \A i \in NeedHash : ~Readable(i) => RowsOf(IdOf(i)) = {}
    /\ hu.pass \in {"two", "done"} =>
           \A i \in NeedHash : Readable(i) => RowsOf(IdOf(i)) # {}
    /\ hu.pass = "done" =>
           \A i \in NeedHash : ("sha1" \in DOMAIN hu.out[i].atts) <=> Readable(i)

\* The first file was hashed, the second could not be read: after merge
\* only the first has a sha1
C33_Witness ==
    /\ hu.pass = "done"
    /\ \E i, j \in NeedHash :
           /\ i < j
           /\ Readable(i) /\ "sha1" \in DOMAIN hu.out[i].atts
           /\ ~Readable(j) /\ "sha1" \notin DOMAIN hu.out[j].atts

(***************************************************************************)
(* Claims on the comparison of attributes.                                 *)
(***************************************************************************)
RootSide == <<<<>>, "Enter">>

\* The nodes the comparator matches: the two roots, and the nodes of one
\* path and one kind (directory or file) that both streams have
MatchedSides == {RootSide} \cup (Side(cmp.L) \cap Side(cmp.R))

NodeOf(s, k) ==
    IF k = RootSide THEN 1
    ELSE CHOOSE i \in Named(s) : PathOf(s, i) = k[1] /\ s[i].t = k[2]

\* The ignore set: the caller's keys, and always ctime and ino
IgnoreSet == cmp.ignore \cup {CtimeKey, InoKey}

\* The keys outside the ignore set that the two nodes of k both have, with
\* different values
ModifyKeys(k) ==
    LET a == cmp.L[NodeOf(cmp.L, k)].atts
        b == cmp.R[NodeOf(cmp.R, k)].atts
    IN {x \in (DOMAIN a \cap DOMAIN b) \ IgnoreSet : a[x] # b[x]}

Modifies(p) ==
    {e \in 1..Len(cmp.events) :
         cmp.events[e].action = "Modify" /\ cmp.events[e].path = p}

KeysOf(diffs) == {diffs[i] : i \in 1..Len(diffs)}

\* C34: for the matched nodes of a path a Modify is reported iff some key
\* outside the ignore set is in both attribute maps with different values,
\* and its list is exactly the set of those keys, each once; nodes that
\* differ in ignored keys only, or in keys that one side lacks, give none.
C34_ModifyList ==
    cmp.status = "ok" =>
        /\ \A k \in MatchedSides :
               /\ Cardinality(Modifies(k[1]))
                      = Cardinality({j \in MatchedSides :
                                         j[1] = k[1] /\ ModifyKeys(j) # {}})
               /\ ModifyKeys(k) # {} =>
                      \E e \in Modifies(k[1]) :
                          /\ KeysOf(cmp.events[e].diffs) = ModifyKeys(k)
                          /\ Len(cmp.events[e].diffs) = Cardinality(ModifyKeys(k))
        /\ \A e \in 1..Len(cmp.events) :
               cmp.events[e].action = "Modify" =>
                   \E k \in MatchedSides :
                       /\ k[1] = cmp.events[e].path
                       /\ KeysOf(cmp.events[e].diffs) = ModifyKeys(k)

\* The roots differ in "s" and the caller ignores nothing: one Modify, for
\* the root; the two files of one name differ in ctime and ino, and one of
\* them lacks "s": no Modify for them; or the caller ignores "s" and the
\* files differ in it
C34_Witness ==
    /\ cmp.status = "ok"
    /\ cmp.ignore = {}
    /\ cmp.events = <<Event("Modify", <<>>, <<>>, <<SKey>>)>>
    /\ \E k \in MatchedSides :
           /\ k[2] = "File"
           /\ CtimeKey \in DOMAIN cmp.L[NodeOf(cmp.L, k)].atts
           /\ SKey \notin DOMAIN cmp.R[NodeOf(cmp.R, k)].atts

(***************************************************************************)
(* Claims on the path tracker                                              *)
(***************************************************************************)
\* The root path followed by the components given
BasePlus(comps) ==
    [PathNew(Unescape(tk.root).bytes) EXCEPT !.comps = @ \o comps]

\* The buffer before node i was given to the closure
CurBefore(i) == IF i = 1 THEN BasePlus(<<>>) ELSE tk.curs[i - 1]

\* The Leave that closes the directory entered at node i
LeaveOf(s, i) ==
    CHOOSE j \in (i + 1)..Len(s) :
        /\ s[j].t = "Leave"
        /\ Len(DirAt(s, j + 1)) = Len(DirAt(s, i))
        /\ \A k \in (i + 1)..j : Len(DirAt(s, k)) > Len(DirAt(s, i))

\* The path given with every node is the one its place in the stream asks for
PathsGiven ==
    \A i \in 1..Len(tk.out) :
        tk.out[i] = IF i = 1 THEN SomePath(BasePlus(<<>>))
                    ELSE IF HasName(tk.src[i])
                    THEN SomePath(BasePlus(TrackerPath(tk.src, i)))
                    ELSE NoPath

\* The Leave of the directories entered at the nodes given brings the buffer back
LeaveRestores(enters) ==
    \A i \in enters :
        (tk.src[i].t = "Enter" /\ LeaveOf(tk.src, i) <= Len(tk.out))
            => tk.curs[LeaveOf(tk.src, i)] = CurBefore(i)

\* C35 as stated: every File and every Enter but the root's is given the root
\* path followed by the unescaped names of the open directories below the
\* root and its own name, the root's Enter is given the root path, Sep and
\* Leave are given no path, and after the Leave of any directory, the root
\* included, the buffer is what it was before the Enter of that directory.
C35_LeaveRestoresAll ==
    /\ ~tk.panic
    /\ PathsGiven
    /\ LeaveRestores(1..Len(tk.out))

\* C35, amended: the same, and the buffer is restored by the Leave of every
\* directory other than the root.
C35_LeaveRestoresBelowRoot ==
    /\ ~tk.panic
    /\ PathsGiven
    /\ LeaveRestores(2..Len(tk.out))

\* The whole of a stream was tracked in which a directory written "=3d" holds
\* a file and is followed by another node with a name
C35_Witness ==
    /\ Len(tk.out) = Len(tk.src)
    /\ \E i \in 2..Len(tk.src) :
           /\ tk.src[i].t = "Enter"
           /\ tk.src[i].name = <<61, 51, 100>>
           /\ \E f \in (i + 1)..(LeaveOf(tk.src, i) - 1) : tk.src[f].t = "File"
           /\ \E n \in (LeaveOf(tk.src, i) + 1)..Len(tk.src) : HasName(tk.src[n])

(***************************************************************************)
(* Claims on the ReadIterator                                              *)
(***************************************************************************)
\* pos and depth as call k of next found them
PosBefore(k) == IF k = 1 THEN 0 ELSE rd.calls[k - 1].pos

DepthBefore(k) == IF k = 1 THEN 0 ELSE rd.calls[k - 1].depth

\* A call before call k gave the Leave that brought the depth to zero
DoneBefore(k) ==
    \E j \in 1..(k - 1) : rd.calls[j].item = Leave /\ rd.calls[j].depth = 0

\* Call k took a line from the input
TookLine(k) == ~DoneBefore(k) /\ PosBefore(k) < Len(rd.lines)

LineOf(k) == rd.lines[PosBefore(k) + 1]

\* The kind of node that the first byte of a line stands for
KindOfByte(b) ==
    IF b = 100 THEN "Enter" ELSE IF b = 102 THEN "File" ELSE IF b = 45 THEN "Sep"
    ELSE IF b = 117 THEN "Leave" ELSE "InvalidSurefileChar"

\* C36: up to the Leave that brings the depth back to zero every call of
\* next takes one line and gives the node of its kind (or its error), after
\* that Leave every call gives None and takes no line, whatever follows in
\* the input, and a call that finds the input at its end before that Leave
\* gives TruncatedSurefile.
C36_StopsAtLastLeave ==
    \A k \in 1..Len(rd.calls) :
        /\ DoneBefore(k) <=> rd.calls[k].item = NoneItem
        /\ DoneBefore(k) => rd.calls[k].pos = PosBefore(k)
        /\ (~DoneBefore(k) /\ PosBefore(k) = Len(rd.lines))
               <=> rd.calls[k].item = ErrItem("TruncatedSurefile")
        /\ TookLine(k) =>
               /\ rd.calls[k].pos = PosBefore(k) + 1
               /\ \/ rd.calls[k].item.t = "panic"
                  \/ /\ Len(LineOf(k)) > 0
                     /\ rd.calls[k].item.t = KindOfByte(LineOf(k)[1])

\* next gave None twice and left a line of the input unread
C36_Witness ==
    /\ rd.pos < Len(rd.lines)
    /\ \E k \in 1..Len(rd.calls) :
           rd.calls[k].item = NoneItem /\ k < Len(rd.calls)

\* Call k took a line that does not begin with d, f, - or u
TookOtherLine(k) ==
    /\ TookLine(k)
    /\ \/ Len(LineOf(k)) = 0
       \/ LineOf(k)[1] \notin {100, 102, 45, 117}

\* C37: a call of next that takes a line which does not begin with d, f, -
\* or u, a line of no bytes included, gives InvalidSurefileChar.
C37_OtherLinesInvalid ==
    \A k \in 1..Len(rd.calls) :
        TookOtherLine(k) => rd.calls[k].item = ErrItem("InvalidSurefileChar")

\* The part of C37 that holds: the lines that have a first byte
C37_OtherBytesInvalid ==
    \A k \in 1..Len(rd.calls) :
        (TookOtherLine(k) /\ Len(LineOf(k)) > 0)
            => rd.calls[k].item = ErrItem("InvalidSurefileChar")

\* C38: a call of next that takes a `u` line while the depth is 0 does not
\* panic and leaves the depth at 0, so that the depth is never above the
\* number of directories that are open.
C38_DepthNotBelowZero ==
    \A k \in 1..Len(rd.calls) :
        (TookLine(k) /\ LineOf(k) = <<117>> /\ DepthBefore(k) = 0)
            => /\ rd.calls[k].item.t # "panic"
               /\ rd.calls[k].depth = 0

(***************************************************************************)
(* Claims on the renames of close                                          *)
(***************************************************************************)
\* close has returned Ok
CloseOk == wr.kind = "idle" /\ wr.result = "ok"

\* After close the backup is the old main file and the main file the new weave
Replaced == mainf = FileOf(wr.intended) /\ (pre.exists => bakf = pre)

\* No file comes under the main name before the step of the backup rename
\* was taken, and that step leaves the backup alone when there is no main file
RenameOrder ==
    /\ [][(mainf' # mainf /\ mainf'.exists) => wr.pc = "ren2"]_vars
    /\ [][(wr.pc = "ren1" /\ ~mainf.exists) => bakf' = bakf]_vars

\* C39: close renames main to backup before it renames the temp file to
\* main; when close has returned Ok the backup file is the main file from
\* before the operation, if there was one, and the main file is the new
\* weave; with no main file the backup rename fails, close goes on and a
\* backup file that is there stays as it is.
C39_RenamesOnClose == [](CloseOk => Replaced) /\ RenameOrder

\* The part of C39 that holds: the same for the writes that meet no I/O fault
C39_CleanRenamesOnClose == [](CleanWrite => Replaced) /\ RenameOrder

(***************************************************************************)
(* Claims on the cursor of Naming                                          *)
(***************************************************************************)
\* Every call returned the name that a search from 0 returns
SameAsScan == nc.rets = nc.scans

\* C40: every call of Naming::temp_file returns the smallest number whose
\* name does not exist at the call, which is what SimpleNaming::temp_file
\* returns in the same directory, whatever files were made and taken away
\* before; in a directory that was empty the calls return 0, 1, 2, ...
C40_CursorNotObservable ==
    /\ SameAsScan
    /\ (nc.empty /\ nc.clean) => nc.rets = [k \in 1..Len(nc.rets) |-> k - 1]

\* The part of C40 that holds: as long as no temp file left its name and no
\* call failed
C40_SameUntilRelease ==
    nc.clean => /\ SameAsScan
                /\ nc.empty => nc.rets = [k \in 1..Len(nc.rets) |-> k - 1]

====
